---------------------------- MODULE Spec2Model ----------------------------
(***************************************************************************)
(* Model of src/api/user-dashboard.ts: the dashboard handler and its three *)
(* components separateSessions, calculateStats and generateRecommendations *)
(* with the helpers they call.                                             *)
(*                                                                         *)
(* Conventions.                                                            *)
(*  - Text is a TLA+ string; includes/toLowerCase/trim are computed        *)
(*    character by character.                                              *)
(*  - A Date object is a record [valid, time]; time counts hours.  The     *)
(*    date texts of the model are "2025-06-DD" and "2025-06-DDTHH:00";     *)
(*    every other text parses to an Invalid Date (valid = FALSE), with     *)
(*    which every comparison is false, as with NaN.  The server's zone is  *)
(*    taken to be UTC, so both forms parse to the same local clock.        *)
(*  - Money is counted in pence, so 10 pounds is 1000.                     *)
(*  - Array.prototype.filter is SelectSeq.                                 *)
(*  - Fields the components only copy through (urls, image, endTime,       *)
(*    spotsRemaining) are left out of the records.                         *)
(***************************************************************************)
EXTENDS Integers, Sequences, FiniteSets, TLC

VARIABLES
    pc,              \* position of the handler (or of a harness)
    clock,           \* the system clock, in hours
    profile,         \* UserProfile, or NoProfile
    events,          \* Event[]
    bookings,        \* Booking[]
    page, pageSize,  \* the request's pagination
    sepNow,          \* `now` as read by separateSessions
    upcoming,        \* separateSessions: upcoming
    pastAll,         \* separateSessions: past, sorted, before pagination
    past,            \* separateSessions: paginatedPast
    pastTotal,       \* separateSessions: pastTotal
    statsNow,        \* `now` as read by calculateStats
    attended,        \* calculateStats: the attended bookings
    stats,           \* calculateStats: UserStats
    recNow,          \* `now` as read by generateRecommendations
    scoredEvents,    \* generateRecommendations: scoredEvents, sorted
    recommendations, \* generateRecommendations: uniqueRecommendations
    pctScore,        \* calculateDisplayPercentage: the raw score
    pctValue,        \* calculateDisplayPercentage: its result
    pctPrev,         \* the result for the raw score one lower
    reqs,            \* concurrent invocations of the handler: their locals
    running          \* the invocation whose synchronous code is running, or 0

vars == <<pc, clock, profile, events, bookings, page, pageSize, sepNow,
          upcoming, pastAll, past, pastTotal, statsNow, attended, stats,
          recNow, scoredEvents, recommendations, pctScore, pctValue, pctPrev,
          reqs, running>>

inputVars == <<profile, events, bookings, page, pageSize>>
sepVars   == <<sepNow, upcoming, pastAll, past, pastTotal>>
statVars  == <<statsNow, attended, stats>>
recVars   == <<recNow, scoredEvents, recommendations>>
pctVars   == <<pctScore, pctValue, pctPrev>>
pairVars  == <<reqs, running>>

-----------------------------------------------------------------------------
(* Text                                                                    *)

LowerChar(c) ==
    CASE c = "A" -> "a" [] c = "B" -> "b" [] c = "C" -> "c" [] c = "D" -> "d"
      [] c = "E" -> "e" [] c = "F" -> "f" [] c = "G" -> "g" [] c = "H" -> "h"
      [] c = "I" -> "i" [] c = "J" -> "j" [] c = "K" -> "k" [] c = "L" -> "l"
      [] c = "M" -> "m" [] c = "N" -> "n" [] c = "O" -> "o" [] c = "P" -> "p"
      [] c = "Q" -> "q" [] c = "R" -> "r" [] c = "S" -> "s" [] c = "T" -> "t"
      [] c = "U" -> "u" [] c = "V" -> "v" [] c = "W" -> "w" [] c = "X" -> "x"
      [] c = "Y" -> "y" [] c = "Z" -> "z" [] OTHER -> c

UpperChar(c) ==
    CASE c = "a" -> "A" [] c = "b" -> "B" [] c = "c" -> "C" [] c = "d" -> "D"
      [] c = "e" -> "E" [] c = "f" -> "F" [] c = "g" -> "G" [] c = "h" -> "H"
      [] c = "i" -> "I" [] c = "j" -> "J" [] c = "k" -> "K" [] c = "l" -> "L"
      [] c = "m" -> "M" [] c = "n" -> "N" [] c = "o" -> "O" [] c = "p" -> "P"
      [] c = "q" -> "Q" [] c = "r" -> "R" [] c = "s" -> "S" [] c = "t" -> "T"
      [] c = "u" -> "U" [] c = "v" -> "V" [] c = "w" -> "W" [] c = "x" -> "X"
      [] c = "y" -> "Y" [] c = "z" -> "Z" [] OTHER -> c

CharAt(s, i) == SubSeq(s, i, i)

RECURSIVE toLowerCase(_)
toLowerCase(s) ==
    IF s = "" THEN ""
    ELSE LowerChar(CharAt(s, 1)) \o toLowerCase(SubSeq(s, 2, Len(s)))

RECURSIVE trimStart(_)
trimStart(s) ==
    IF s # "" /\ CharAt(s, 1) = " " THEN trimStart(SubSeq(s, 2, Len(s))) ELSE s

RECURSIVE trimEnd(_)
trimEnd(s) ==
    IF s # "" /\ CharAt(s, Len(s)) = " "
    THEN trimEnd(SubSeq(s, 1, Len(s) - 1)) ELSE s

trim(s) == trimEnd(trimStart(s))

\* String.prototype.includes
includes(s, t) ==
    \E i \in 1..(Len(s) - Len(t) + 1) : SubSeq(s, i, i + Len(t) - 1) = t

\* value.split(',')
RECURSIVE split(_)
split(s) ==
    IF \E i \in 1..Len(s) : CharAt(s, i) = ","
    THEN LET i == CHOOSE k \in 1..Len(s) :
                      /\ CharAt(s, k) = ","
                      /\ \A j \in 1..(k - 1) : CharAt(s, j) # ","
         IN  <<SubSeq(s, 1, i - 1)>> \o split(SubSeq(s, i + 1, Len(s)))
    ELSE <<s>>

\* The characters \w of a regular expression, for lower-cased text
WordChars ==
    {"a", "b", "c", "d", "e", "f", "g", "h", "i", "j", "k", "l", "m", "n",
     "o", "p", "q", "r", "s", "t", "u", "v", "w", "x", "y", "z", "0", "1",
     "2", "3", "4", "5", "6", "7", "8", "9", "_"}

\* Is there a \b between positions i and i+1 of s (0 <= i <= Len(s))
wordBoundary(s, i) ==
    LET before == i >= 1 /\ CharAt(s, i) \in WordChars
        after  == i < Len(s) /\ CharAt(s, i + 1) \in WordChars
    IN  before # after

\* new RegExp(`\\b${word}\\b`, 'i').test(s), for a word without
\* metacharacters and lower-cased s
wordMatch(word, s) ==
    \E i \in 1..(Len(s) - Len(word) + 1) :
        /\ SubSeq(s, i, i + Len(word) - 1) = word
        /\ wordBoundary(s, i - 1)
        /\ wordBoundary(s, i + Len(word) - 1)

-----------------------------------------------------------------------------
(* Numbers and dates                                                       *)

Min(a, b) == IF a < b THEN a ELSE b
Max(a, b) == IF a > b THEN a ELSE b

\* Math.round(n / d) for d > 0: the nearest integer, halves upwards
RoundDiv(n, d) == (2 * n + d) \div (2 * d)

HoursPerDay == 24

DigitVal(c) ==
    CASE c = "0" -> 0 [] c = "1" -> 1 [] c = "2" -> 2 [] c = "3" -> 3
      [] c = "4" -> 4 [] c = "5" -> 5 [] c = "6" -> 6 [] c = "7" -> 7
      [] c = "8" -> 8 [] c = "9" -> 9 [] OTHER -> 0 - 1

IsDigit(c) == DigitVal(c) >= 0

TwoDigits(s, i) == 10 * DigitVal(CharAt(s, i)) + DigitVal(CharAt(s, i + 1))

InvalidDate == [valid |-> FALSE, time |-> 0]

\* new Date(text), for the date texts of the model
newDate(text) ==
    LET dayOk  == /\ Len(text) >= 10
                  /\ SubSeq(text, 1, 8) = "2025-06-"
                  /\ IsDigit(CharAt(text, 9)) /\ IsDigit(CharAt(text, 10))
                  /\ TwoDigits(text, 9) \in 1..30
        hourOk == /\ Len(text) = 16
                  /\ CharAt(text, 11) = "T"
                  /\ IsDigit(CharAt(text, 12)) /\ IsDigit(CharAt(text, 13))
                  /\ TwoDigits(text, 12) < HoursPerDay
                  /\ SubSeq(text, 14, 16) = ":00"
    IN  IF dayOk /\ Len(text) = 10
        THEN [valid |-> TRUE, time |-> TwoDigits(text, 9) * HoursPerDay]
        ELSE IF dayOk /\ hourOk
        THEN [valid |-> TRUE,
              time  |-> TwoDigits(text, 9) * HoursPerDay + TwoDigits(text, 12)]
        ELSE InvalidDate

\* date.setHours(0, 0, 0, 0)
setHours0(d) ==
    IF d.valid THEN [valid |-> TRUE, time |-> d.time - (d.time % HoursPerDay)]
    ELSE d

\* new Date() followed by setHours(0, 0, 0, 0), at clock value c
todayAt(c) == [valid |-> TRUE, time |-> c - (c % HoursPerDay)]

\* a < b and a >= b on Date objects: false when either is invalid
dateLt(a, b) == a.valid /\ b.valid /\ a.time < b.time
dateGe(a, b) == a.valid /\ b.valid /\ a.time >= b.time

\* parseFloat(cleaned) || 0, in pence: digits, "." and up to two decimals
RECURSIVE digitPrefix(_)
digitPrefix(s) ==
    IF s # "" /\ IsDigit(CharAt(s, 1))
    THEN CharAt(s, 1) \o digitPrefix(SubSeq(s, 2, Len(s))) ELSE ""

RECURSIVE digitsValue(_)
digitsValue(s) ==
    IF s = "" THEN 0
    ELSE 10 * digitsValue(SubSeq(s, 1, Len(s) - 1)) + DigitVal(CharAt(s, Len(s)))

RECURSIVE removeChars(_, _)
removeChars(s, cs) ==
    IF s = "" THEN ""
    ELSE (IF CharAt(s, 1) \in cs THEN "" ELSE CharAt(s, 1))
         \o removeChars(SubSeq(s, 2, Len(s)), cs)

\* The pound sign of the price texts.  The texts of the model are ASCII, and
\* the sign is written as one character that no other text contains.
PoundSign == "#"

parsePrice(value) ==
    IF value = "" THEN 0
    ELSE LET cleaned == removeChars(value, {PoundSign, ",", " "})
             neg     == cleaned # "" /\ CharAt(cleaned, 1) = "-"
             signed  == cleaned # "" /\ CharAt(cleaned, 1) \in {"-", "+"}
             body    == IF signed THEN SubSeq(cleaned, 2, Len(cleaned))
                        ELSE cleaned
             whole   == digitPrefix(body)
             rest    == SubSeq(body, Len(whole) + 1, Len(body))
             frac    == IF rest # "" /\ CharAt(rest, 1) = "."
                        THEN digitPrefix(SubSeq(rest, 2, Len(rest))) ELSE ""
             frac2   == SubSeq(frac \o "00", 1, 2)
             pence   == 100 * digitsValue(whole) + digitsValue(frac2)
         IN  IF whole = "" /\ frac = "" THEN 0
             ELSE IF neg THEN 0 - pence ELSE pence

formatTime(time) == time

\* Stands for JavaScript's undefined and null in a text field
Undefined == "<undefined>"

Weekdays ==
    <<"Sunday", "Monday", "Tuesday", "Wednesday", "Thursday", "Friday",
      "Saturday">>

\* days[d.getDay()]: 1 June 2025 is a Sunday; days[NaN] is undefined
getDayOfWeek(date) ==
    LET d == newDate(date)
    IN  IF d.valid
        THEN Weekdays[(((d.time \div HoursPerDay) - 1) % 7) + 1]
        ELSE Undefined

\* The badge of a date, the clock reading c
getDateBadge(date, c) ==
    LET eventDate == setHours0(newDate(date))
        today     == todayAt(c)
        diffDays  == (eventDate.time - today.time) \div HoursPerDay
    IN  IF ~eventDate.valid THEN Undefined
        ELSE IF diffDays = 0 THEN "Today"
        ELSE IF diffDays = 1 THEN "Tomorrow"
        ELSE IF diffDays > 0 /\ diffDays <= 7 THEN "This week"
        ELSE IF diffDays > 7 /\ diffDays <= 14 THEN "Next week"
        ELSE Undefined

londonBoroughs ==
    <<"Westminster", "Camden", "Islington", "Hackney", "Tower Hamlets",
      "Greenwich", "Lewisham", "Southwark", "Lambeth", "Wandsworth",
      "Hammersmith", "Fulham", "Kensington", "Chelsea", "Brent", "Ealing",
      "Hounslow", "Richmond", "Kingston", "Merton", "Sutton", "Croydon",
      "Bromley", "Bexley", "Havering", "Barking", "Dagenham", "Redbridge",
      "Newham", "Waltham Forest", "Haringey", "Enfield", "Barnet", "Harrow",
      "Hillingdon">>

postcodeWords ==
    <<"UK", "N1", "N2", "N3", "N4", "N5", "N6", "N7", "N8", "N9", "N10",
      "SW1", "SW2", "SW3", "SE1", "SE2", "SE3", "E1", "E2", "E3", "W1", "W2",
      "W3", "NW1", "NW2">>

RECURSIVE mapLower(_)
mapLower(seq) ==
    IF seq = <<>> THEN <<>>
    ELSE <<toLowerCase(Head(seq))>> \o mapLower(Tail(seq))

\* borough.toLowerCase() for each entry of londonBoroughs
londonBoroughsLower == mapLower(londonBoroughs)

RECURSIVE mapTrim(_)
mapTrim(seq) ==
    IF seq = <<>> THEN <<>> ELSE <<trim(Head(seq))>> \o mapTrim(Tail(seq))

extractBorough(location) ==
    IF location = "" THEN ""
    ELSE
      LET locationLower == toLowerCase(location)
          hits == {i \in 1..Len(londonBoroughs) :
                      includes(locationLower, londonBoroughsLower[i])}
          parts == mapTrim(split(location))
          meaningful(part) ==
              LET partLower == toLowerCase(part)
              IN  /\ ~includes(partLower, "uk")
                  /\ ~includes(partLower, "england")
                  /\ part # "London"
                  /\ ~\E k \in 1..Len(postcodeWords) :
                         includes(part, " " \o postcodeWords[k])
          meaningfulParts == SelectSeq(parts, meaningful)
      IN  IF hits # {}
          THEN londonBoroughs[CHOOSE i \in hits : \A j \in hits : i <= j]
          ELSE IF Len(meaningfulParts) >= 2
          THEN meaningfulParts[Len(meaningfulParts) - 1]
          ELSE IF Len(meaningfulParts) = 1 THEN meaningfulParts[1]
          ELSE parts[1]

-----------------------------------------------------------------------------
(* Recommendation helpers                                                  *)

regionNames == <<"East", "West", "North", "South", "Central">>

LONDON_REGIONS ==
    <<  <<"Hackney", "Tower Hamlets", "Newham", "Waltham Forest",
          "Redbridge", "Barking", "Dagenham", "Havering">>,
        <<"Hammersmith", "Fulham", "Ealing", "Hounslow", "Brent",
          "Hillingdon", "Harrow">>,
        <<"Camden", "Islington", "Haringey", "Enfield", "Barnet">>,
        <<"Lambeth", "Southwark", "Lewisham", "Greenwich", "Bromley",
          "Croydon", "Sutton", "Merton">>,
        <<"Westminster", "Kensington", "Chelsea", "City of London">>  >>

\* b.toLowerCase() for each borough of each region
regionBoroughsLower ==
    [r \in 1..Len(LONDON_REGIONS) |-> mapLower(LONDON_REGIONS[r])]

\* "" stands for null
getBoroughRegion(borough) ==
    LET boroughLower == toLowerCase(borough)
        hits == {r \in 1..Len(LONDON_REGIONS) :
                    \E k \in 1..Len(regionBoroughsLower[r]) :
                        includes(boroughLower, regionBoroughsLower[r][k])}
    IN  IF hits = {} THEN ""
        ELSE regionNames[CHOOSE r \in hits : \A q \in hits : r <= q]

\* The branch of checkGenderCompatibility for "Women Only" sessions
womenOnlyTarget(sessionTarget) == includes(sessionTarget, "women only")

\* The branch of checkGenderCompatibility for "Men" / "Men Only" sessions
menTarget(sessionTarget) ==
    \/ sessionTarget = "men"
    \/ sessionTarget = "men only"
    \/ includes(sessionTarget, "men only")

\* Mutant: an incompatible pair is reported compatible, without bonus
checkGenderCompatibility_NoExclusion(sessionGenderTarget, userGender) ==
    LET sessionTarget == toLowerCase(trim(sessionGenderTarget))
        userGen       == toLowerCase(trim(userGender))
        open == [isCompatible |-> TRUE, bonusPoints |-> 0, matchReason |-> ""]
    IN  IF sessionTarget = "" \/ userGen = "" THEN open
        ELSE IF womenOnlyTarget(sessionTarget) /\ userGen = "female"
        THEN [isCompatible |-> TRUE, bonusPoints |-> 30,
              matchReason |-> "women's session"]
        ELSE IF womenOnlyTarget(sessionTarget) /\ userGen = "male"
        THEN open
        ELSE IF menTarget(sessionTarget) /\ userGen = "male"
        THEN [isCompatible |-> TRUE, bonusPoints |-> 30,
              matchReason |-> "men's session"]
        ELSE open

\* Mutant: the men's branch is tested before the "Women Only" branch
checkGenderCompatibility_MenFirst(sessionGenderTarget, userGender) ==
    LET sessionTarget == toLowerCase(trim(sessionGenderTarget))
        userGen       == toLowerCase(trim(userGender))
        open    == [isCompatible |-> TRUE, bonusPoints |-> 0, matchReason |-> ""]
        exclude == [isCompatible |-> FALSE, bonusPoints |-> 0, matchReason |-> ""]
    IN  IF sessionTarget = "" \/ userGen = "" THEN open
        ELSE IF menTarget(sessionTarget) /\ userGen = "male"
        THEN [isCompatible |-> TRUE, bonusPoints |-> 30,
              matchReason |-> "men's session"]
        ELSE IF menTarget(sessionTarget) /\ userGen = "female"
        THEN exclude
        ELSE IF womenOnlyTarget(sessionTarget) /\ userGen = "female"
        THEN [isCompatible |-> TRUE, bonusPoints |-> 30,
              matchReason |-> "women's session"]
        ELSE IF womenOnlyTarget(sessionTarget) /\ userGen = "male"
        THEN exclude
        ELSE open

\* matchReason "" stands for undefined
checkGenderCompatibility(sessionGenderTarget, userGender) ==
    LET sessionTarget == toLowerCase(trim(sessionGenderTarget))
        userGen       == toLowerCase(trim(userGender))
        open    == [isCompatible |-> TRUE, bonusPoints |-> 0, matchReason |-> ""]
        exclude == [isCompatible |-> FALSE, bonusPoints |-> 0, matchReason |-> ""]
    IN  IF sessionTarget = "" \/ userGen = "" THEN open
        ELSE IF womenOnlyTarget(sessionTarget) /\ userGen = "female"
        THEN [isCompatible |-> TRUE, bonusPoints |-> 30,
              matchReason |-> "women's session"]
        ELSE IF womenOnlyTarget(sessionTarget) /\ userGen = "male"
        THEN exclude
        ELSE IF menTarget(sessionTarget) /\ userGen = "male"
        THEN [isCompatible |-> TRUE, bonusPoints |-> 30,
              matchReason |-> "men's session"]
        ELSE IF menTarget(sessionTarget) /\ userGen = "female"
        THEN exclude
        ELSE open

\* Mutant: the band 90..119 is stretched over 20 points instead of 19
calculateDisplayPercentage_WideBand(rawScore) ==
    IF rawScore >= 120
    THEN IF rawScore - 120 >= 260 - 120 THEN 100
         ELSE RoundDiv(80 * (260 - 120) + (rawScore - 120) * 20, 260 - 120)
    ELSE IF rawScore >= 90
    THEN RoundDiv(60 * (119 - 90) + (rawScore - 90) * 20, 119 - 90)
    ELSE IF rawScore >= 60
    THEN RoundDiv(40 * (89 - 60) + (rawScore - 60) * 19, 89 - 60)
    ELSE IF rawScore >= 40
    THEN RoundDiv(25 * (59 - 40) + (rawScore - 40) * 14, 59 - 40)
    ELSE RoundDiv(10 * 39 + Min(rawScore, 39) * 14, 39)

\* Math.round of an exact quotient; no band produces an exact half, so the
\* floating-point evaluation rounds to the same integer
calculateDisplayPercentage(rawScore) ==
    IF rawScore >= 120
    THEN IF rawScore - 120 >= 260 - 120 THEN 100
         ELSE RoundDiv(80 * (260 - 120) + (rawScore - 120) * 20, 260 - 120)
    ELSE IF rawScore >= 90
    THEN RoundDiv(60 * (119 - 90) + (rawScore - 90) * 19, 119 - 90)
    ELSE IF rawScore >= 60
    THEN RoundDiv(40 * (89 - 60) + (rawScore - 60) * 19, 89 - 60)
    ELSE IF rawScore >= 40
    THEN RoundDiv(25 * (59 - 40) + (rawScore - 40) * 14, 59 - 40)
    ELSE RoundDiv(10 * 39 + Min(rawScore, 39) * 14, 39)

childKeywords ==
    <<"kids", "children", "child", "youth", "junior", "juniors", "under 16",
      "under 18", "u16", "u18", "u14", "u12", "u10", "primary school",
      "secondary school", "school kids", "school-age">>

isChildrenSession(eventName, eventCategory) ==
    LET text == toLowerCase(eventName \o " " \o eventCategory)
    IN  \E k \in 1..Len(childKeywords) : includes(text, childKeywords[k])

footballCompounds ==
    <<"american football", "american flag football", "flag football",
      "australian rules football", "afl", "gridiron">>

footballKeywords == <<"football", "soccer", "5-a-side", "7-a-side", "11-a-side">>

\* Mutant: the list of excluded compounds is not consulted
isCompoundFootball_Never(categoryLower, nameLower) == FALSE

\* The text of an event that holds an excluded compound of "football"
isCompoundFootball(categoryLower, nameLower) ==
    LET textToCheck == categoryLower \o " " \o nameLower
    IN  \E k \in 1..Len(footballCompounds) :
            includes(textToCheck, footballCompounds[k])

isSportMatch(userSport, eventCategory, eventName) ==
    LET userSportLower == trim(toLowerCase(userSport))
        categoryLower  == trim(toLowerCase(eventCategory))
        nameLower      == trim(toLowerCase(eventName))
    IN  IF userSportLower = categoryLower THEN TRUE
        ELSE IF userSportLower = "football"
        THEN IF isCompoundFootball(categoryLower, nameLower) THEN FALSE
             ELSE \E k \in 1..Len(footballKeywords) :
                      \/ includes(categoryLower, footballKeywords[k])
                      \/ includes(nameLower, footballKeywords[k])
        ELSE IF userSportLower = "boxing"
        THEN IF isChildrenSession(eventName, eventCategory) THEN FALSE
             ELSE \/ includes(categoryLower, "boxing")
                  \/ includes(nameLower, "boxing")
        ELSE \/ wordMatch(userSportLower, categoryLower)
             \/ wordMatch(userSportLower, nameLower)

skillLevels ==
    <<"beginner", "intermediate", "advanced", "all levels", "mixed ability">>

\* Mutant: "all levels" and "mixed ability" must fit the user's text too
matchesSkillLevel_NamedOnly(eventName, userLevel) ==
    IF userLevel = "" THEN [matches |-> FALSE, level |-> ""]
    ELSE
      LET eventLower == toLowerCase(eventName)
          userLower  == toLowerCase(userLevel)
          hits == {k \in 1..Len(skillLevels) :
                      /\ includes(eventLower, skillLevels[k])
                      /\ \/ includes(userLower, skillLevels[k])
                         \/ includes(skillLevels[k], userLower)}
      IN  IF hits = {} THEN [matches |-> FALSE, level |-> ""]
          ELSE [matches |-> TRUE,
                level |-> skillLevels[CHOOSE k \in hits : \A j \in hits : k <= j]]

\* level "" with matches = FALSE is the "no match" result
matchesSkillLevel(eventName, userLevel) ==
    IF userLevel = "" THEN [matches |-> FALSE, level |-> ""]
    ELSE
      LET eventLower == toLowerCase(eventName)
          userLower  == toLowerCase(userLevel)
          hits == {k \in 1..Len(skillLevels) :
                      /\ includes(eventLower, skillLevels[k])
                      /\ \/ skillLevels[k] \in {"all levels", "mixed ability"}
                         \/ includes(userLower, skillLevels[k])
                         \/ includes(skillLevels[k], userLower)}
      IN  IF hits = {} THEN [matches |-> FALSE, level |-> ""]
          ELSE [matches |-> TRUE,
                level |-> skillLevels[CHOOSE k \in hits : \A j \in hits : k <= j]]

-----------------------------------------------------------------------------
(* generateRecommendations                                                 *)

\* The filter "future, active, unbooked" of generateRecommendations
isFutureActiveUnbooked(event, now, bookedEventIDs) ==
    LET eventDate == setHours0(newDate(event.date))
        isActive  == \/ toLowerCase(event.active) = "true"
                     \/ toLowerCase(event.active) = "yes"
    IN  /\ dateGe(eventDate, now)
        /\ isActive
        /\ event.eventID \notin bookedEventIDs

\* The three filters of generateRecommendations
isCandidate(event, prof, now, bookedEventIDs) ==
    /\ isFutureActiveUnbooked(event, now, bookedEventIDs)
    /\ ~isChildrenSession(event.eventName, event.category)
    /\ checkGenderCompatibility(event.genderTarget, prof.gender).isCompatible

NoPoints == [points |-> 0, reasons |-> <<>>]

\* profile.preferredSports.some(s => isSportMatch(...))
sportMatch(event, prof) ==
    \E i \in 1..Len(prof.preferredSports) :
        isSportMatch(prof.preferredSports[i], event.category, event.eventName)

\* Mutant: the sport match is worth its former 50 points
sportFactor_Fifty(event, prof) ==
    IF sportMatch(event, prof)
    THEN [points |-> 50, reasons |-> <<event.category \o " session">>]
    ELSE NoPoints

\* 1. SPORT/ACTIVITY MATCH
sportFactor(event, prof) ==
    IF sportMatch(event, prof)
    THEN LET i == CHOOSE k \in 1..Len(prof.preferredSports) :
                    /\ isSportMatch(prof.preferredSports[k], event.category,
                                    event.eventName)
                    /\ \A j \in 1..(k - 1) :
                          ~isSportMatch(prof.preferredSports[j],
                                        event.category, event.eventName)
             matchedSport == prof.preferredSports[i]
         IN  [points  |-> 80,
              reasons |-> <<(IF matchedSport # "" THEN matchedSport
                             ELSE event.category) \o " session">>]
    ELSE NoPoints

eventBoroughOf(event) ==
    IF event.borough # "" THEN event.borough ELSE extractBorough(event.location)

userRegionOf(prof) ==
    IF prof.homeBorough # "" THEN getBoroughRegion(prof.homeBorough) ELSE ""

\* Exact borough match
exactBorough(event, prof) ==
    /\ prof.homeBorough # ""
    /\ includes(toLowerCase(eventBoroughOf(event)), toLowerCase(prof.homeBorough))

\* Regional proximity
sameRegion(event, prof) ==
    /\ userRegionOf(prof) # ""
    /\ getBoroughRegion(eventBoroughOf(event)) = userRegionOf(prof)

\* 2. GEOGRAPHIC PROXIMITY
geoFactor(event, prof) ==
    IF exactBorough(event, prof)
    THEN [points |-> 35, reasons |-> <<"in " \o eventBoroughOf(event)>>]
    ELSE IF sameRegion(event, prof)
    THEN [points  |-> 25,
          reasons |-> <<"in " \o userRegionOf(prof) \o " London">>]
    ELSE NoPoints

\* 3. GENDER DEMOGRAPHIC MATCH
genderFactor(event, prof) ==
    LET genderCheck == checkGenderCompatibility(event.genderTarget, prof.gender)
    IN  IF genderCheck.bonusPoints > 0 /\ genderCheck.matchReason # ""
        THEN [points  |-> genderCheck.bonusPoints,
              reasons |-> <<genderCheck.matchReason>>]
        ELSE NoPoints

\* 4. MOTIVATIONS MATCH
motivationFactor(event, prof) ==
    LET matches(userMotivation) ==
            \E k \in 1..Len(event.motivations) :
                trim(toLowerCase(event.motivations[k]))
                    = trim(toLowerCase(userMotivation))
        motivationMatches == SelectSeq(prof.motivations, matches)
    IN  IF Len(prof.motivations) > 0 /\ Len(event.motivations) > 0
           /\ Len(motivationMatches) > 0
        THEN [points  |-> 25,
              reasons |-> <<"for " \o toLowerCase(motivationMatches[1])>>]
        ELSE NoPoints

\* 5. SKILL/FITNESS LEVEL MATCH
skillFactor(event, prof) ==
    LET skillMatch == matchesSkillLevel(event.eventName, prof.fitnessLevel)
    IN  IF skillMatch.matches
        THEN [points |-> 25, reasons |-> <<skillMatch.level \o " level">>]
        ELSE NoPoints

\* 6. SESSION FORMAT MATCH
formatFactor(event, prof) ==
    IF /\ prof.sessionFormatPreference # "" /\ event.sessionFormat # ""
       /\ trim(toLowerCase(prof.sessionFormatPreference))
              = trim(toLowerCase(event.sessionFormat))
    THEN [points  |-> 20,
          reasons |-> <<toLowerCase(event.sessionFormat) \o " format">>]
    ELSE NoPoints

\* 7. DAY PREFERENCE MATCH
dayFactor(event, prof) ==
    LET eventDay == getDayOfWeek(event.date)
    IN  IF /\ Len(prof.preferredDays) > 0
           /\ eventDay # Undefined
           /\ \E k \in 1..Len(prof.preferredDays) :
                  toLowerCase(prof.preferredDays[k]) = toLowerCase(eventDay)
        THEN [points |-> 20, reasons |-> <<"on " \o eventDay>>]
        ELSE NoPoints

\* 8. TIME PREFERENCE MATCH
timeFactor(event, prof) ==
    IF /\ Len(prof.preferredTimes) > 0
       /\ \E k \in 1..Len(prof.preferredTimes) :
              includes(toLowerCase(event.time),
                       toLowerCase(prof.preferredTimes[k]))
    THEN [points |-> 15, reasons |-> <<"at your preferred time">>]
    ELSE NoPoints

\* 9. PRICE BONUS (prices in pence)
priceFactor(event) ==
    IF event.price <= 1000
    THEN [points  |-> 10,
          reasons |-> IF event.price <= 500 THEN <<"budget-friendly">>
                      ELSE <<>>]
    ELSE NoPoints

\* The factors in the order the code evaluates them
factorsOf(event, prof) ==
    <<sportFactor(event, prof), geoFactor(event, prof),
      genderFactor(event, prof), motivationFactor(event, prof),
      skillFactor(event, prof), formatFactor(event, prof),
      dayFactor(event, prof), timeFactor(event, prof), priceFactor(event)>>

RECURSIVE sumPoints(_)
sumPoints(fs) == IF fs = <<>> THEN 0 ELSE Head(fs).points + sumPoints(Tail(fs))

RECURSIVE allReasons(_)
allReasons(fs) ==
    IF fs = <<>> THEN <<>> ELSE Head(fs).reasons \o allReasons(Tail(fs))

\* Mutant: the penalty keeps half of the score
applyPenalty_Half(score, hasSportMatch, prof) ==
    IF ~hasSportMatch /\ Len(prof.preferredSports) > 0
    THEN score \div 2
    ELSE score

\* Mutant: the penalty is applied whether or not the user has sports
applyPenalty_Always(score, hasSportMatch, prof) ==
    IF ~hasSportMatch THEN (2 * score) \div 5 ELSE score

\* PENALTY: Math.floor(score * 0.4) when no preferred sport matched; for an
\* integer score the double product floors to floor(2 * score / 5)
applyPenalty(score, hasSportMatch, prof) ==
    IF ~hasSportMatch /\ Len(prof.preferredSports) > 0
    THEN (2 * score) \div 5
    ELSE score

RECURSIVE join(_, _)
join(parts, sep) ==
    IF parts = <<>> THEN ""
    ELSE IF Len(parts) = 1 THEN parts[1]
    ELSE parts[1] \o sep \o join(Tail(parts), sep)

\* The separator of the reason fragments, a middle dot between two spaces in
\* the source, written in ASCII here.
ReasonSeparator == " . "

\* Build reason string, capitalize first letter
buildReason(reasons) ==
    LET reason == IF Len(reasons) > 0 THEN join(reasons, ReasonSeparator)
                  ELSE "New session in your area"
    IN  IF reason = "" THEN ""
        ELSE UpperChar(CharAt(reason, 1)) \o SubSeq(reason, 2, Len(reason))

\* The body of candidates.map(event => ...); originalScore, hasSportMatch and
\* reasons are the locals of the callback, kept beside the card's fields
scoreEvent(event, prof) ==
    LET fs            == factorsOf(event, prof)
        hasSportMatch == sportMatch(event, prof)
        originalScore == sumPoints(fs)
        score         == applyPenalty(originalScore, hasSportMatch, prof)
    IN  [eventID           |-> event.eventID,
         title             |-> event.eventName,
         sport             |-> event.category,
         date              |-> event.date,
         time              |-> formatTime(event.time),
         venue             |-> event.location,
         borough           |-> eventBoroughOf(event),
         price             |-> event.price,
         difficulty        |-> matchesSkillLevel(event.eventName,
                                                 prof.fitnessLevel).level,
         score             |-> score,
         displayPercentage |-> calculateDisplayPercentage(score),
         reason            |-> buildReason(allReasons(fs)),
         originalScore     |-> originalScore,
         hasSportMatch     |-> hasSportMatch,
         reasons           |-> allReasons(fs)]

RECURSIVE scoreAll(_, _)
scoreAll(cands, prof) ==
    IF cands = <<>> THEN <<>>
    ELSE <<scoreEvent(Head(cands), prof)>> \o scoreAll(Tail(cands), prof)

\* Mutant: rec is inserted before its equals
RECURSIVE insertByScore_BeforeEquals(_, _)
insertByScore_BeforeEquals(sorted, rec) ==
    IF sorted = <<>> THEN <<rec>>
    ELSE IF Head(sorted).score > rec.score
    THEN <<Head(sorted)>> \o insertByScore_BeforeEquals(Tail(sorted), rec)
    ELSE <<rec>> \o sorted

\* Insert rec into a list sorted by score descending, after its equals
RECURSIVE insertByScore(_, _)
insertByScore(sorted, rec) ==
    IF sorted = <<>> THEN <<rec>>
    ELSE IF Head(sorted).score >= rec.score
    THEN <<Head(sorted)>> \o insertByScore(Tail(sorted), rec)
    ELSE <<rec>> \o sorted

\* scoredEvents.sort((a, b) => b.score - a.score): stable
RECURSIVE sortByScore(_)
sortByScore(recs) ==
    IF recs = <<>> THEN <<>>
    ELSE insertByScore(sortByScore(SubSeq(recs, 1, Len(recs) - 1)),
                       recs[Len(recs)])

MIN_RECOMMENDATION_SCORE == 60

MaxRecommendations == 5

\* Mutant: every candidate with points passes
passesThreshold_AnyPoints(rec) == rec.score > 0

\* Mutant: the threshold is applied to the score before the penalty
passesThreshold_BeforePenalty(rec) ==
    rec.originalScore >= MIN_RECOMMENDATION_SCORE

passesThreshold(rec) == rec.score >= MIN_RECOMMENDATION_SCORE

\* Mutant: the key is the event identifier
uniqueKeyOf_EventID(rec, evs) == rec.eventID

\* templateID || rec.eventID, the template of the first event with that id
uniqueKeyOf(rec, evs) ==
    LET hits == {i \in 1..Len(evs) : evs[i].eventID = rec.eventID}
        templateID == IF hits = {} THEN ""
                      ELSE trim(evs[CHOOSE i \in hits :
                                        \A j \in hits : i <= j].sessionTemplateID)
    IN  IF templateID # "" THEN templateID ELSE rec.eventID

\* Mutant: the loop breaks at six cards
RECURSIVE dedupe_CapSix(_, _, _, _)
dedupe_CapSix(recs, evs, seen, out) ==
    IF recs = <<>> \/ Len(out) >= 6 THEN out
    ELSE LET uniqueKey == uniqueKeyOf(Head(recs), evs)
         IN  IF uniqueKey \in seen
             THEN dedupe_CapSix(Tail(recs), evs, seen, out)
             ELSE dedupe_CapSix(Tail(recs), evs, seen \cup {uniqueKey},
                                Append(out, Head(recs)))

\* The deduplication loop, with its break at five cards
RECURSIVE dedupe(_, _, _, _)
dedupe(recs, evs, seen, out) ==
    IF recs = <<>> \/ Len(out) >= MaxRecommendations THEN out
    ELSE LET uniqueKey == uniqueKeyOf(Head(recs), evs)
         IN  IF uniqueKey \in seen
             THEN dedupe(Tail(recs), evs, seen, out)
             ELSE dedupe(Tail(recs), evs, seen \cup {uniqueKey},
                         Append(out, Head(recs)))

\* Mutant: a cancelled booking does not count as a booking of the event
bookedEventIDsOf_NotCancelled(bks) ==
    {bks[i].eventID : i \in {k \in 1..Len(bks) : bks[k].status # "Cancelled"}}

\* new Set(bookings.map(b => b.eventID))
bookedEventIDsOf(bks) == {bks[i].eventID : i \in 1..Len(bks)}

\* scoredEvents after the sort
scoredEventsOf(evs, prof, bks, now) ==
    LET keep(event) == isCandidate(event, prof, now, bookedEventIDsOf(bks))
    IN  sortByScore(scoreAll(SelectSeq(evs, keep), prof))

\* uniqueRecommendations
uniqueRecommendationsOf(scored, evs) ==
    dedupe(SelectSeq(scored, passesThreshold), evs, {}, <<>>)

-----------------------------------------------------------------------------
(* separateSessions                                                        *)

\* new Map(events.map(e => [e.eventID, e])).get(id): the last event with
\* that id, or none
eventMapGet(evs, id) ==
    LET hits == {i \in 1..Len(evs) : evs[i].eventID = id}
    IN  IF hits = {} THEN [found |-> FALSE]
        ELSE [found |-> TRUE,
              event |-> evs[CHOOSE i \in hits : \A j \in hits : i >= j]]

\* event?.field || fallback, for a text field
orText(e, field, fallback) ==
    IF e.found /\ e.event[field] # "" THEN e.event[field] ELSE fallback

\* event?.date || booking.eventDate
resolvedDate(booking, e) == orText(e, "date", booking.eventDate)

\* Mutant: the booking's status is the attendance label of every card
createSessionCardFromBooking_StatusAlways(booking, e, isPast, c) ==
    LET eventName == orText(e, "eventName", booking.eventName)
        eventDate == resolvedDate(booking, e)
        eventTime == orText(e, "time", booking.eventTime)
        location  == orText(e, "location", booking.eventLocation)
        price     == IF e.found /\ e.event.price # 0 THEN e.event.price
                     ELSE parsePrice(booking.amountPaid)
        category  == orText(e, "category", "")
        borough   == orText(e, "borough", extractBorough(location))
    IN  [eventID          |-> booking.eventID,
         title            |-> eventName,
         sport            |-> category,
         date             |-> eventDate,
         time             |-> formatTime(eventTime),
         venue            |-> location,
         borough          |-> borough,
         price            |-> price,
         badge            |-> IF isPast THEN Undefined
                              ELSE getDateBadge(eventDate, c),
         difficulty       |-> booking.skillLevel,
         bookingID        |-> booking.bookingID,
         attendanceStatus |-> booking.status]

createSessionCardFromBooking(booking, e, isPast, c) ==
    LET eventName == orText(e, "eventName", booking.eventName)
        eventDate == resolvedDate(booking, e)
        eventTime == orText(e, "time", booking.eventTime)
        location  == orText(e, "location", booking.eventLocation)
        price     == IF e.found /\ e.event.price # 0 THEN e.event.price
                     ELSE parsePrice(booking.amountPaid)
        category  == orText(e, "category", "")
        borough   == orText(e, "borough", extractBorough(location))
    IN  [eventID          |-> booking.eventID,
         title            |-> eventName,
         sport            |-> category,
         date             |-> eventDate,
         time             |-> formatTime(eventTime),
         venue            |-> location,
         borough          |-> borough,
         price            |-> price,
         badge            |-> IF isPast THEN Undefined
                              ELSE getDateBadge(eventDate, c),
         difficulty       |-> booking.skillLevel,
         bookingID        |-> booking.bookingID,
         attendanceStatus |-> IF isPast THEN booking.status ELSE Undefined]

\* const isPast = eventDate < now
isPastBooking(booking, evs, c) ==
    dateLt(setHours0(newDate(resolvedDate(booking, eventMapGet(evs, booking.eventID)))),
           todayAt(c))

\* Mutant: no booking is skipped as a duplicate
RECURSIVE separateLoop_NoDedupe(_, _, _, _)
separateLoop_NoDedupe(bks, evs, c, seen) ==
    IF bks = <<>> THEN <<>>
    ELSE LET booking == Head(bks)
             isPast  == isPastBooking(booking, evs, c)
             card    == createSessionCardFromBooking(
                            booking, eventMapGet(evs, booking.eventID),
                            isPast, c)
         IN  <<[isPast |-> isPast, card |-> card]>>
             \o separateLoop_NoDedupe(Tail(bks), evs, c, seen)

\* The loop over the bookings: seen is seenBookingIds, and the result holds
\* the cards in the order they were pushed, each with the list it went to
RECURSIVE separateLoop(_, _, _, _)
separateLoop(bks, evs, c, seen) ==
    IF bks = <<>> THEN <<>>
    ELSE LET booking == Head(bks)
         IN  IF booking.bookingID \in seen
             THEN separateLoop(Tail(bks), evs, c, seen)
             ELSE LET isPast == isPastBooking(booking, evs, c)
                      card   == createSessionCardFromBooking(
                                    booking, eventMapGet(evs, booking.eventID),
                                    isPast, c)
                  IN  <<[isPast |-> isPast, card |-> card]>>
                      \o separateLoop(Tail(bks), evs, c,
                                      seen \cup {booking.bookingID})

\* eventDate.toISOString() in the loop's console.log raises a RangeError
\* on an Invalid Date; the card's date is the text eventDate was made from.
\* The handler's catch answers 500 INTERNAL_ERROR.
separateThrows(entries) ==
    \E i \in 1..Len(entries) : ~newDate(entries[i].card.date).valid

RECURSIVE cardsOf(_)
cardsOf(entries) ==
    IF entries = <<>> THEN <<>>
    ELSE <<Head(entries).card>> \o cardsOf(Tail(entries))

isPastEntry(entry) == entry.isPast
isUpcomingEntry(entry) == ~entry.isPast

\* new Date(card.date).getTime()
cardTime(card) == newDate(card.date)

\* Insert card into a list sorted by date, after the cards it does not
\* precede
RECURSIVE insertByDate(_, _, _)
insertByDate(sorted, card, descending) ==
    IF sorted = <<>> THEN <<card>>
    ELSE IF (IF descending
             THEN cardTime(Head(sorted)).time >= cardTime(card).time
             ELSE cardTime(Head(sorted)).time <= cardTime(card).time)
    THEN <<Head(sorted)>> \o insertByDate(Tail(sorted), card, descending)
    ELSE <<card>> \o sorted

RECURSIVE stableSortByDate(_, _)
stableSortByDate(cards, descending) ==
    IF cards = <<>> THEN <<>>
    ELSE insertByDate(stableSortByDate(SubSeq(cards, 1, Len(cards) - 1),
                                       descending),
                      cards[Len(cards)], descending)

permutationsOf(seq) ==
    LET n == Len(seq)
        bijections == {f \in [1..n -> 1..n] : \A i, j \in 1..n :
                                                  f[i] = f[j] => i = j}
    IN  {[i \in 1..n |-> seq[f[i]]] : f \in bijections}

\* Mutant: sort returns the cards in an arbitrary order
sortOutcomes_AnyOrder(cards, descending) == permutationsOf(cards)

\* cards.sort((a, b) => time(a) - time(b)) or its reverse.  The sort is
\* stable.  When a card's date is invalid the comparator returns NaN for
\* some pairs and is not a consistent ordering: the order is then left to
\* the implementation and every permutation is an outcome.
sortOutcomes(cards, descending) ==
    IF \A i \in 1..Len(cards) : cardTime(cards[i]).valid
    THEN {stableSortByDate(cards, descending)}
    ELSE permutationsOf(cards)

\* Array.prototype.slice(start, end)
slice(seq, start, end) ==
    LET len  == Len(seq)
        from == IF start < 0 THEN Max(len + start, 0) ELSE Min(start, len)
        to   == IF end < 0 THEN Max(len + end, 0) ELSE Min(end, len)
    IN  SubSeq(seq, from + 1, to)

\* Mutant: the page is taken to count from zero
pageStart_ZeroBased(pg, size) == pg * size

\* const start = (page - 1) * pageSize
pageStart(pg, size) == (pg - 1) * size

\* past.slice(start, start + pageSize)
paginate(sortedPast, pg, size) ==
    slice(sortedPast, pageStart(pg, size), pageStart(pg, size) + size)

-----------------------------------------------------------------------------
(* calculateStats                                                          *)

\* The status tests of the attended filter, in the order of the code
\* Mutant: a past booking counts only on an explicit attendance keyword
statusCountsAsAttended_ExplicitOnly(statusText) ==
    LET status == toLowerCase(statusText)
    IN  \/ includes(status, "attended")
        \/ includes(status, "completed")
        \/ includes(status, "confirmed")

statusCountsAsAttended(statusText) ==
    LET status == toLowerCase(statusText)
    IN  IF includes(status, "attended") \/ includes(status, "completed")
        THEN TRUE
        ELSE IF includes(status, "confirmed") THEN TRUE
        ELSE IF \/ includes(status, "cancelled") \/ includes(status, "cancel")
                \/ includes(status, "no-show") \/ includes(status, "noshow")
        THEN FALSE
        ELSE TRUE

\* The callback of bookings.SelectSeq(b => ...): eventDate is not set to
\* midnight, now is
isAttended(b, c) ==
    LET eventDate == newDate(b.eventDate)
        now       == todayAt(c)
    IN  IF dateGe(eventDate, now) THEN FALSE
        ELSE statusCountsAsAttended(b.status)

attendedOf(bks, c) ==
    LET keep(b) == isAttended(b, c)
    IN  SelectSeq(bks, keep)

\* Mutant: a no-show is left out of the sum as well
isCancelledForSpend_NoShowToo(b) ==
    LET status == toLowerCase(b.status)
    IN  \/ includes(status, "cancelled") \/ includes(status, "cancel")
        \/ includes(status, "no-show") \/ includes(status, "noshow")

isCancelledForSpend(b) ==
    LET status == toLowerCase(b.status)
    IN  includes(status, "cancelled") \/ includes(status, "cancel")

\* bookings.reduce(...), in pence
RECURSIVE totalSpentOf(_)
totalSpentOf(bks) ==
    IF bks = <<>> THEN 0
    ELSE totalSpentOf(SubSeq(bks, 1, Len(bks) - 1))
         + (IF isCancelledForSpend(bks[Len(bks)]) THEN 0
            ELSE parsePrice(bks[Len(bks)].amountPaid))

\* Mutant: an attended booking without a catalog event adds 60 minutes
RECURSIVE totalMinutesOf_DefaultSixty(_, _)
totalMinutesOf_DefaultSixty(att, evs) ==
    IF att = <<>> THEN 0
    ELSE LET e == eventMapGet(evs, Head(att).eventID)
         IN  (IF e.found THEN e.event.durationMinutes
              ELSE 60)
             + totalMinutesOf_DefaultSixty(Tail(att), evs)

RECURSIVE totalMinutesOf(_, _)
totalMinutesOf(att, evs) ==
    IF att = <<>> THEN 0
    ELSE LET e == eventMapGet(evs, Head(att).eventID)
         IN  (IF e.found THEN e.event.durationMinutes
              ELSE 90)
             + totalMinutesOf(Tail(att), evs)

\* The keys counted for sportCounts, in the order of the attended bookings
RECURSIVE sportKeysOf(_, _)
sportKeysOf(att, evs) ==
    IF att = <<>> THEN <<>>
    ELSE LET e == eventMapGet(evs, Head(att).eventID)
         IN  (IF e.found /\ e.event.category # ""
              THEN <<e.event.category>> ELSE <<>>)
             \o sportKeysOf(Tail(att), evs)

\* The keys counted for dayCounts, in the order of the attended bookings
RECURSIVE dayKeysOf(_)
dayKeysOf(att) ==
    IF att = <<>> THEN <<>>
    ELSE LET day == getDayOfWeek(Head(att).eventDate)
         IN  (IF day # Undefined THEN <<day>> ELSE <<>>)
             \o dayKeysOf(Tail(att))

countOf(keys, k) == Cardinality({i \in 1..Len(keys) : keys[i] = k})

firstIndexOf(keys, k) == CHOOSE i \in 1..Len(keys) :
                             keys[i] = k /\ \A j \in 1..(i - 1) : keys[j] # k

\* Mutant: the empty text, not null, when nothing was counted
mostFrequent_EmptyText(keys) ==
    IF keys = <<>> THEN ""
    ELSE keys[CHOOSE i \in 1..Len(keys) :
                /\ i = firstIndexOf(keys, keys[i])
                /\ \A j \in 1..Len(keys) :
                      \/ countOf(keys, keys[j]) < countOf(keys, keys[i])
                      \/ /\ countOf(keys, keys[j]) = countOf(keys, keys[i])
                         /\ firstIndexOf(keys, keys[j]) >= i]

\* Mutant: among the keys with the highest count the last inserted one
mostFrequent_LastOfTies(keys) ==
    IF keys = <<>> THEN Undefined
    ELSE keys[CHOOSE i \in 1..Len(keys) :
                /\ i = firstIndexOf(keys, keys[i])
                /\ \A j \in 1..Len(keys) :
                      \/ countOf(keys, keys[j]) < countOf(keys, keys[i])
                      \/ /\ countOf(keys, keys[j]) = countOf(keys, keys[i])
                         /\ firstIndexOf(keys, keys[j]) <= i]

\* Array.from(counts.entries()).sort((a, b) => b[1] - a[1])[0][0]: a Map
\* keeps its keys in insertion order and the sort is stable, so the result
\* is the first inserted key among those with the highest count; null
\* (Undefined) when nothing was counted
mostFrequent(keys) ==
    IF keys = <<>> THEN Undefined
    ELSE keys[CHOOSE i \in 1..Len(keys) :
                /\ i = firstIndexOf(keys, keys[i])
                /\ \A j \in 1..Len(keys) :
                      \/ countOf(keys, keys[j]) < countOf(keys, keys[i])
                      \/ /\ countOf(keys, keys[j]) = countOf(keys, keys[i])
                         /\ firstIndexOf(keys, keys[j]) >= i]

\* Mutant: totalBooked counts the distinct booking identifiers
calculateStats_DistinctBooked(bks, evs, c) ==
    LET att          == attendedOf(bks, c)
        totalMinutes == totalMinutesOf(att, evs)
    IN  [totalBooked      |-> Cardinality({bks[i].bookingID : i \in 1..Len(bks)}),
         totalAttended    |-> Len(att),
         totalHoursPlayed |-> RoundDiv(totalMinutes * 10, 60),
         totalSpent       |-> totalSpentOf(bks),
         mostPlayedSport  |-> mostFrequent(sportKeysOf(att, evs)),
         mostCommonDay    |-> mostFrequent(dayKeysOf(att))]

\* totalHoursPlayed in tenths of an hour, totalSpent in pence
calculateStats(bks, evs, c) ==
    LET att          == attendedOf(bks, c)
        totalMinutes == totalMinutesOf(att, evs)
    IN  [totalBooked      |-> Len(bks),
         totalAttended    |-> Len(att),
         totalHoursPlayed |-> RoundDiv(totalMinutes * 10, 60),
         totalSpent       |-> totalSpentOf(bks),
         mostPlayedSport  |-> mostFrequent(sportKeysOf(att, evs)),
         mostCommonDay    |-> mostFrequent(dayKeysOf(att))]

NoStats ==
    [totalBooked |-> 0, totalAttended |-> 0, totalHoursPlayed |-> 0,
     totalSpent |-> 0, mostPlayedSport |-> Undefined,
     mostCommonDay |-> Undefined]

-----------------------------------------------------------------------------
(* Inputs                                                                  *)

\* The clock when the request arrives: 10 June 2025, 23:00
StartClock == 10 * HoursPerDay + 23

\* Hours the clock may advance while a request is served
MaxTicks == 1

\* Longest catalog drawn from the event pool, the whole pool apart
MaxEvents == 2

\* Longest booking list
MaxBookings == 3

\* Largest page and page size of a request
MaxPage == 2
MaxPageSize == 2

\* Largest raw score given to calculateDisplayPercentage
MaxScore == 270

evScenario ==
    [eventID |-> "e1", sessionTemplateID |-> "T1", eventName |-> "Kickabout",
     category |-> "Football", date |-> "2025-06-11", time |-> "18:00",
     location |-> "Mabley Green, Hackney, London", borough |-> "Hackney",
     price |-> 800, durationMinutes |-> 60, active |-> "TRUE",
     genderTarget |-> "", motivations |-> <<>>, sessionFormat |-> ""]

evTennisTwin == [evScenario EXCEPT !.eventID = "e2", !.category = "Tennis"]

evRepeat ==
    [evScenario EXCEPT !.eventID = "e3", !.sessionTemplateID = "T1 ",
                       !.date = "2025-06-18", !.price = 1200]

evWomen ==
    [evScenario EXCEPT !.eventID = "e4", !.sessionTemplateID = "",
                       !.eventName = "Women's Football",
                       !.genderTarget = "Women Only"]

evMenRich ==
    [eventID |-> "e5", sessionTemplateID |-> " T5 ",
     eventName |-> "All Levels Pilates", category |-> "Pilates",
     date |-> "2025-06-11", time |-> "Evening 18:00",
     location |-> "Town Hall, Hackney", borough |-> "Hackney",
     price |-> 500, durationMinutes |-> 45, active |-> "yes",
     genderTarget |-> " Men Only ", motivations |-> <<"Social", "Fitness ">>,
     sessionFormat |-> "Drop-in"]

evOpenRich ==
    [evMenRich EXCEPT !.eventID = "e6", !.sessionTemplateID = "",
                      !.genderTarget = "Mixed"]

evMen ==
    [eventID |-> "e7", sessionTemplateID |-> "", eventName |-> "Basketball Run",
     category |-> "Basketball", date |-> "2025-06-12", time |-> "Morning",
     location |-> "Talacre, Camden, London", borough |-> "Camden",
     price |-> 1050, durationMinutes |-> 90, active |-> "TRUE",
     genderTarget |-> "Men", motivations |-> <<>>, sessionFormat |-> ""]

evAmerican ==
    [evMen EXCEPT !.eventID = "e8", !.eventName = "American Football Social",
                  !.category = "American Football", !.genderTarget = "",
                  !.price = 1200]

evFlagExact ==
    [evScenario EXCEPT !.eventID = "e9", !.sessionTemplateID = "",
                       !.eventName = "Flag Football Night", !.borough = "",
                       !.location = "Stratford Park, Newham, London",
                       !.price = 900]

evFiveASide ==
    [evScenario EXCEPT !.eventID = "e10", !.sessionTemplateID = "",
                       !.eventName = "Beginner 5-a-side",
                       !.category = "Social", !.price = 1001]

evKids ==
    [evScenario EXCEPT !.eventID = "e11", !.sessionTemplateID = "",
                       !.eventName = "Kids Football Camp"]

evInactive ==
    [evScenario EXCEPT !.eventID = "e12", !.sessionTemplateID = "",
                       !.active = "FALSE"]

evPast ==
    [evScenario EXCEPT !.eventID = "e13", !.sessionTemplateID = "",
                       !.category = "Tennis", !.date = "2025-06-09",
                       !.durationMinutes = 75, !.price = 0]

evToday ==
    [evScenario EXCEPT !.eventID = "e14", !.sessionTemplateID = "",
                       !.date = "2025-06-10T20:00"]

evNoDate ==
    [evScenario EXCEPT !.eventID = "e15", !.sessionTemplateID = "",
                       !.date = "TBC"]

evYoga ==
    [eventID |-> "e16", sessionTemplateID |-> "",
     eventName |-> "Mixed Ability Yoga", category |-> "Yoga",
     date |-> "2025-06-11", time |-> "Evening", location |-> "Angel, London",
     borough |-> "Islington", price |-> 1500, durationMinutes |-> 60,
     active |-> "true", genderTarget |-> "Women Only (18+)",
     motivations |-> <<"Fitness">>, sessionFormat |-> "drop-in"]

RecEventPool ==
    <<evScenario, evTennisTwin, evRepeat, evWomen, evMenRich, evOpenRich,
      evMen, evAmerican, evFlagExact, evFiveASide, evKids, evInactive, evPast,
      evToday, evNoDate, evYoga>>

userScenario ==
    [found |-> TRUE, homeBorough |-> "Hackney",
     preferredSports |-> <<"Football">>, preferredDays |-> <<>>,
     preferredTimes |-> <<>>, fitnessLevel |-> "", motivations |-> <<>>,
     sessionFormatPreference |-> "", gender |-> "female"]

userMaleFull ==
    [found |-> TRUE, homeBorough |-> "hackney",
     preferredSports |-> <<"Football">>, preferredDays |-> <<"wednesday">>,
     preferredTimes |-> <<"Evening">>, fitnessLevel |-> "Beginner",
     motivations |-> <<"Fitness">>, sessionFormatPreference |-> "drop-in ",
     gender |-> " Male "]

userNoSports ==
    [userMaleFull EXCEPT !.preferredSports = <<>>, !.gender = "Male",
                         !.fitnessLevel = "begin"]

userFemaleFull ==
    [userMaleFull EXCEPT !.preferredSports = <<"Tennis", "Yoga">>,
                         !.gender = "Female", !.homeBorough = "Newham",
                         !.fitnessLevel = "Advanced player"]

userOther ==
    [userScenario EXCEPT !.gender = "Non-binary", !.homeBorough = ""]

userNoGender ==
    [userScenario EXCEPT !.gender = "", !.preferredSports = <<"Boxing">>]

RecProfiles ==
    {userScenario, userMaleFull, userNoSports, userFemaleFull, userOther,
     userNoGender}

NoProfile == [found |-> FALSE]

\* What fetchUserProfile can return: preferredDays and preferredTimes empty
HandlerProfiles == {userScenario, NoProfile}

bkBase ==
    [bookingID |-> "b1", eventID |-> "e1", eventName |-> "Kickabout",
     amountPaid |-> PoundSign \o "8.00", status |-> "Confirmed", skillLevel |-> "",
     eventDate |-> "2025-06-11", eventTime |-> "18:00",
     eventLocation |-> "Mabley Green, Hackney, London"]

bkGone ==
    [bkBase EXCEPT !.bookingID = "b2", !.eventID = "x9",
                   !.eventDate = "2025-06-09", !.amountPaid = "10"]

bkCancelled ==
    [bkBase EXCEPT !.bookingID = "b3", !.eventID = "e13",
                   !.eventDate = "2025-06-09T18:00", !.status = "Cancelled"]

bkSameId ==
    [bkBase EXCEPT !.bookingID = "b2", !.eventID = "e13",
                   !.eventDate = "2025-06-07", !.status = "Attended",
                   !.amountPaid = PoundSign \o "1,000.50"]

bkNoShowConfirmed ==
    [bkBase EXCEPT !.bookingID = "b5", !.eventID = "x8",
                   !.eventDate = "2025-06-08",
                   !.status = "Confirmed - No-show"]

bkToday ==
    [bkBase EXCEPT !.bookingID = "b6", !.eventID = "e14",
                   !.eventDate = "2025-06-10", !.status = "Attended"]

bkNoDate ==
    [bkBase EXCEPT !.bookingID = "b7", !.eventID = "x7", !.eventDate = "",
                   !.status = "NOSHOW", !.amountPaid = ""]

bkPending ==
    [bkBase EXCEPT !.bookingID = "b8", !.eventID = "e1",
                   !.eventDate = "2025-06-02", !.status = "Pending",
                   !.amountPaid = "free"]

BookingPool ==
    <<bkBase, bkGone, bkCancelled, bkSameId, bkNoShowConfirmed, bkToday,
      bkNoDate, bkPending>>

RECURSIVE reverse(_)
reverse(seq) ==
    IF seq = <<>> THEN <<>> ELSE Append(reverse(Tail(seq)), Head(seq))

\* The elements of pool at the positions idx, in the order of the pool
pick(pool, idx) ==
    LET F[k \in 0..Len(pool)] ==
            IF k = 0 THEN <<>>
            ELSE IF k \in idx THEN Append(F[k - 1], pool[k]) ELSE F[k - 1]
    IN  F[Len(pool)]

\* The lists of at most n elements of pool, in the pool's order or reversed
listsFrom(pool, n) ==
    LET subs == {idx \in SUBSET (1..Len(pool)) : Cardinality(idx) <= n}
    IN  {pick(pool, idx) : idx \in subs}
        \cup {reverse(pick(pool, idx)) : idx \in subs}

RecCatalogs ==
    listsFrom(RecEventPool, MaxEvents) \cup {RecEventPool, reverse(RecEventPool)}

RecBookings == {<<>>, <<[bkCancelled EXCEPT !.eventID = "e1"]>>}

HandlerCatalogs == {<<>>, <<evScenario, evPast, evToday>>}

\* Two upcoming and two past bookings, neither pair in its sorted order
fourBookings == <<bkBase, bkNoShowConfirmed, bkToday, bkGone>>

HandlerBookings == listsFrom(BookingPool, MaxBookings) \cup {fourBookings}

Pages == (1..MaxPage) \cup {0 - 1}

PageSizes == 1..MaxPageSize

-----------------------------------------------------------------------------
(* The handler                                                             *)

NoOutputs ==
    /\ sepNow = InvalidDate /\ upcoming = <<>> /\ pastAll = <<>>
    /\ past = <<>> /\ pastTotal = 0
    /\ statsNow = InvalidDate /\ attended = <<>> /\ stats = NoStats
    /\ recNow = InvalidDate /\ scoredEvents = <<>> /\ recommendations = <<>>

NoPct == pctScore = 0 /\ pctValue = 0 /\ pctPrev = 0

\* No further invocation of the handler
NoPair == reqs = <<>> /\ running = 0

\* The handler after Promise.all has delivered profile, events and bookings
Init ==
    /\ pc = "fetched"
    /\ clock = StartClock
    /\ profile \in HandlerProfiles
    /\ events \in HandlerCatalogs
    /\ bookings \in HandlerBookings
    /\ page \in Pages
    /\ pageSize \in PageSizes
    /\ NoOutputs
    /\ NoPct
    /\ NoPair

\* Time passes while the request is served
Tick ==
    /\ pc \in {"fetched", "separated", "counted"}
    /\ clock < StartClock + MaxTicks
    /\ clock' = clock + 1
    /\ UNCHANGED <<pc, inputVars, sepVars, statVars, recVars, pctVars, pairVars>>

\* if (!profile) return res.status(404)
NotFound ==
    /\ pc = "fetched"
    /\ ~profile.found
    /\ pc' = "notfound"
    /\ UNCHANGED <<clock, inputVars, sepVars, statVars, recVars, pctVars, pairVars>>

SeparateSessions ==
    /\ pc = "fetched"
    /\ profile.found
    /\ LET entries == separateLoop(bookings, events, clock, {})
       IN  IF separateThrows(entries)
           THEN /\ pc' = "failed"
                /\ UNCHANGED sepVars
           ELSE /\ \E up \in sortOutcomes(
                              cardsOf(SelectSeq(entries, isUpcomingEntry)),
                              FALSE) :
                      upcoming' = up
                /\ \E pa \in sortOutcomes(
                              cardsOf(SelectSeq(entries, isPastEntry)),
                              TRUE) :
                      /\ pastAll' = pa
                      /\ past' = paginate(pa, page, pageSize)
                      /\ pastTotal' = Len(pa)
                /\ sepNow' = todayAt(clock)
                /\ pc' = "separated"
    /\ UNCHANGED <<clock, inputVars, statVars, recVars, pctVars, pairVars>>

CalculateStats ==
    /\ pc = "separated"
    /\ statsNow' = todayAt(clock)
    /\ attended' = attendedOf(bookings, clock)
    /\ stats' = calculateStats(bookings, events, clock)
    /\ pc' = "counted"
    /\ UNCHANGED <<clock, inputVars, sepVars, recVars, pctVars, pairVars>>

GenerateRecommendations ==
    /\ pc = "counted"
    /\ recNow' = todayAt(clock)
    /\ LET scored == scoredEventsOf(events, profile, bookings, todayAt(clock))
       IN  /\ scoredEvents' = scored
           /\ recommendations' = uniqueRecommendationsOf(scored, events)
    /\ pc' = "responded"
    /\ UNCHANGED <<clock, inputVars, sepVars, statVars, pctVars, pairVars>>

Next ==
    \/ Tick
    \/ NotFound
    \/ SeparateSessions
    \/ CalculateStats
    \/ GenerateRecommendations

Spec == Init /\ [][Next]_vars

-----------------------------------------------------------------------------
(* generateRecommendations applied to inputs of every shape                *)

RecInit ==
    /\ pc = "counted"
    /\ clock = StartClock
    /\ profile \in RecProfiles
    /\ events \in RecCatalogs
    /\ bookings \in RecBookings
    /\ page = 1
    /\ pageSize = 1
    /\ NoOutputs
    /\ NoPct
    /\ NoPair

RecNext == GenerateRecommendations

SpecRec == RecInit /\ [][RecNext]_vars

-----------------------------------------------------------------------------
(* calculateDisplayPercentage applied to the raw scores 0, 1, 2, ...       *)

PctInit ==
    /\ pc = "pct"
    /\ clock = StartClock
    /\ profile = NoProfile
    /\ events = <<>>
    /\ bookings = <<>>
    /\ page = 1
    /\ pageSize = 1
    /\ NoOutputs
    /\ pctScore = 0
    /\ pctValue = calculateDisplayPercentage(0)
    /\ pctPrev = calculateDisplayPercentage(0)
    /\ NoPair

PctStep ==
    /\ pc = "pct"
    /\ pctScore < MaxScore
    /\ pctScore' = pctScore + 1
    /\ pctValue' = calculateDisplayPercentage(pctScore + 1)
    /\ pctPrev' = pctValue
    /\ UNCHANGED <<pc, clock, inputVars, sepVars, statVars, recVars, pairVars>>

PctNext == PctStep

SpecPct == PctInit /\ [][PctNext]_vars

-----------------------------------------------------------------------------
(* Invocations of the handler served by one process.  An invocation waits  *)
(* at `await Promise.all`; once resumed its code runs to the response      *)
(* without another await, so no other invocation runs in between, while    *)
(* the clock goes on.                                                      *)

MaxRequests == 2

Requests == 1..MaxRequests

\* What the fetches deliver to an invocation, with the page it parsed
requestA ==
    [profile |-> userScenario,
     events |-> <<evScenario, evPast, evToday, evFlagExact>>,
     bookings |-> <<bkBase, bkToday, bkGone>>, page |-> 1, pageSize |-> 1]

requestB ==
    [profile |-> userOther, events |-> <<evScenario>>,
     bookings |-> <<bkBase, bkCancelled>>, page |-> 2, pageSize |-> 2]

requestC ==
    [profile |-> NoProfile, events |-> <<evScenario>>, bookings |-> <<>>,
     page |-> 1, pageSize |-> 1]

requestD == [requestA EXCEPT !.bookings = <<bkGone, bkNoDate>>]

PairRequests == {requestA, requestB, requestC, requestD}

\* An invocation waiting for its fetches
awaiting(rq) ==
    [pc |-> "awaiting", profile |-> rq.profile, events |-> rq.events,
     bookings |-> rq.bookings, page |-> rq.page, pageSize |-> rq.pageSize,
     sepNow |-> InvalidDate, statsNow |-> InvalidDate, recNow |-> InvalidDate,
     upcoming |-> <<>>, past |-> <<>>, pastTotal |-> 0, stats |-> NoStats,
     recommendations |-> <<>>]

\* Mutant: the locals are those of the first invocation
localsOf_FirstRequest(r) == reqs[1]

\* const page, pageSize, [profile, events, bookings]: locals of invocation r
localsOf(r) == reqs[r]

PairInit ==
    /\ pc = "pair"
    /\ clock = StartClock
    /\ profile = NoProfile
    /\ events = <<>>
    /\ bookings = <<>>
    /\ page = 1
    /\ pageSize = 1
    /\ NoOutputs
    /\ NoPct
    /\ reqs \in [Requests -> {awaiting(rq) : rq \in PairRequests}]
    /\ running = 0

flatVars == <<pc, inputVars, sepVars, statVars, recVars, pctVars>>

PairTick ==
    /\ clock < StartClock + MaxTicks
    /\ clock' = clock + 1
    /\ UNCHANGED <<flatVars, pairVars>>

\* Promise.all resolves and the invocation goes on
PairResume(r) ==
    /\ running = 0
    /\ reqs[r].pc = "awaiting"
    /\ reqs' = [reqs EXCEPT ![r].pc = "fetched"]
    /\ running' = r
    /\ UNCHANGED <<clock, flatVars>>

PairNotFound(r) ==
    /\ running = r
    /\ reqs[r].pc = "fetched"
    /\ ~localsOf(r).profile.found
    /\ reqs' = [reqs EXCEPT ![r].pc = "notfound"]
    /\ running' = 0
    /\ UNCHANGED <<clock, flatVars>>

PairSeparate(r) ==
    /\ running = r
    /\ reqs[r].pc = "fetched"
    /\ localsOf(r).profile.found
    /\ LET l       == localsOf(r)
           entries == separateLoop(l.bookings, l.events, clock, {})
       IN  IF separateThrows(entries)
           THEN /\ reqs' = [reqs EXCEPT ![r].pc = "failed"]
                /\ running' = 0
           ELSE /\ \E up \in sortOutcomes(
                              cardsOf(SelectSeq(entries, isUpcomingEntry)),
                              FALSE) :
                   \E pa \in sortOutcomes(
                              cardsOf(SelectSeq(entries, isPastEntry)),
                              TRUE) :
                       reqs' = [reqs EXCEPT
                                   ![r].pc = "separated",
                                   ![r].sepNow = todayAt(clock),
                                   ![r].upcoming = up,
                                   ![r].past = paginate(pa, l.page, l.pageSize),
                                   ![r].pastTotal = Len(pa)]
                /\ UNCHANGED running
    /\ UNCHANGED <<clock, flatVars>>

PairStats(r) ==
    /\ running = r
    /\ reqs[r].pc = "separated"
    /\ LET l == localsOf(r)
       IN  reqs' = [reqs EXCEPT ![r].pc = "counted",
                                ![r].statsNow = todayAt(clock),
                                ![r].stats = calculateStats(l.bookings, l.events,
                                                            clock)]
    /\ UNCHANGED <<clock, flatVars, running>>

PairRecommend(r) ==
    /\ running = r
    /\ reqs[r].pc = "counted"
    /\ LET l      == localsOf(r)
           scored == scoredEventsOf(l.events, l.profile, l.bookings,
                                    todayAt(clock))
       IN  reqs' = [reqs EXCEPT ![r].pc = "responded",
                                ![r].recNow = todayAt(clock),
                                ![r].recommendations =
                                    uniqueRecommendationsOf(scored, l.events)]
    /\ running' = 0
    /\ UNCHANGED <<clock, flatVars>>

PairNext ==
    \/ PairTick
    \/ \E r \in Requests : PairResume(r)
    \/ \E r \in Requests : PairNotFound(r)
    \/ \E r \in Requests : PairSeparate(r)
    \/ \E r \in Requests : PairStats(r)
    \/ \E r \in Requests : PairRecommend(r)

SpecPair == PairInit /\ [][PairNext]_vars

-----------------------------------------------------------------------------
(* Properties of generateRecommendations                                   *)

Responded == pc = "responded"

\* The event of the catalog a recommendation card was made from
eventOf(rec) ==
    events[CHOOSE i \in 1..Len(events) : events[i].eventID = rec.eventID]

normalized(text) == toLowerCase(trim(text))

targetOf(rec) == normalized(eventOf(rec).genderTarget)

isMenTargetText(target) ==
    target = "men" \/ target = "men only" \/ includes(target, "men only")

\* An event that only the gender rule can keep out of the scored list
eligibleButForGender(event) ==
    /\ isFutureActiveUnbooked(event, recNow, bookedEventIDsOf(bookings))
    /\ ~isChildrenSession(event.eventName, event.category)

\* C1, as claimed: for a user whose gender normalizes to "male" no returned
\* event has a gender target containing "women only", and for a user whose
\* gender normalizes to "female" no returned event has a gender target that
\* equals "men" or "men only" or contains "men only".
C1_AsClaimed ==
    Responded =>
        \A i \in 1..Len(recommendations) :
            /\ normalized(profile.gender) = "male"
                   => ~includes(targetOf(recommendations[i]), "women only")
            /\ normalized(profile.gender) = "female"
                   => ~isMenTargetText(targetOf(recommendations[i]))

\* C1, amended: as claimed, except that for a "female" user the excluded
\* targets are those that equal "men" or "men only" or contain "men only"
\* and do not contain "women only" (the text "women only" itself contains
\* "men only", and such events are returned for her).
C1_GenderExclusion ==
    Responded =>
        \A i \in 1..Len(recommendations) :
            /\ normalized(profile.gender) = "male"
                   => ~includes(targetOf(recommendations[i]), "women only")
            /\ normalized(profile.gender) = "female"
                   => \/ ~isMenTargetText(targetOf(recommendations[i]))
                      \/ includes(targetOf(recommendations[i]), "women only")

\* C1, witness: a male user whose catalog holds a "women only" event that
\* matches his sport and is otherwise eligible, and cards were returned
C1_Witness ==
    /\ Responded
    /\ normalized(profile.gender) = "male"
    /\ recommendations # <<>>
    /\ \E i \in 1..Len(events) :
          /\ includes(normalized(events[i].genderTarget), "women only")
          /\ eligibleButForGender(events[i])
          /\ sportMatch(events[i], profile)

\* C2: every returned card has score >= 60.
C2_QualityFloor ==
    Responded =>
        \A i \in 1..Len(recommendations) : recommendations[i].score >= 60

\* C2, witness: a candidate scored below 60 and cards were returned
C2_Witness ==
    /\ Responded
    /\ recommendations # <<>>
    /\ \E i \in 1..Len(scoredEvents) : scoredEvents[i].score < 60

-----------------------------------------------------------------------------
(* Properties of separateSessions                                          *)

Separated == pc \in {"separated", "counted", "responded"}

bookingIDsOf(bks) == {bks[i].bookingID : i \in 1..Len(bks)}

\* The first booking of the input with the identifier id
firstWithID(id) ==
    bookings[CHOOSE i \in 1..Len(bookings) :
                /\ bookings[i].bookingID = id
                /\ \A j \in 1..(i - 1) : bookings[j].bookingID # id]

cardCount(cards, id) ==
    Cardinality({i \in 1..Len(cards) : cards[i].bookingID = id})

pastIDs ==
    {id \in bookingIDsOf(bookings) : isPastBooking(firstWithID(id), events,
                                                   sepNow.time)}

\* C4: for page >= 1 and pageSize >= 1, pastTotal is the number of past
\* unique bookings and the returned page is the elements of the sorted past
\* list at positions [(page-1)*pageSize, (page-1)*pageSize + pageSize); its
\* length is at most pageSize, and it is empty when the start is beyond the
\* end.
C4_Pagination ==
    (Separated /\ page >= 1 /\ pageSize >= 1) =>
        LET start == (page - 1) * pageSize
        IN  /\ pastTotal = Cardinality(pastIDs)
            /\ pastTotal = Len(pastAll)
            /\ Len(past) = Max(0, Min(pageSize, Len(pastAll) - start))
            /\ Len(past) <= pageSize
            /\ \A i \in 1..Len(past) : past[i] = pastAll[start + i]
            /\ start >= Len(pastAll) => past = <<>>

\* C4, witness: the second page of a past list longer than one page
C4_Witness ==
    /\ Separated
    /\ page = 2 /\ pageSize = 1
    /\ Len(pastAll) >= 2
    /\ past = <<pastAll[2]>>
    /\ pastAll[1] # pastAll[2]

-----------------------------------------------------------------------------
(* Properties of calculateDisplayPercentage                                *)

\* C5: score 120 maps to 80 and score 0 to 10; the result does not decrease
\* from one integer score to the next, band edges included; it lies in
\* 10..100, and inside its band's range: 80..100 from 120, 60..79 for
\* 90..119, 40..59 for 60..89, 25..39 for 40..59, 10..24 below 40.
C5_DisplayPercentage ==
    pc = "pct" =>
        /\ pctScore = 120 => pctValue = 80
        /\ pctScore = 0 => pctValue = 10
        /\ pctPrev <= pctValue
        /\ pctValue \in 10..100
        /\ pctScore >= 120 => pctValue \in 80..100
        /\ pctScore \in 90..119 => pctValue \in 60..79
        /\ pctScore \in 60..89 => pctValue \in 40..59
        /\ pctScore \in 40..59 => pctValue \in 25..39
        /\ pctScore \in 0..39 => pctValue \in 10..24

\* C5, witness: the step over the band edge 119/120, from 79 to 80
C5_Witness ==
    /\ pc = "pct"
    /\ pctScore = 120
    /\ pctPrev = 79
    /\ pctValue = 80

-----------------------------------------------------------------------------
(* Properties of the score                                                 *)

motivationMatched(event, prof) ==
    \E i \in 1..Len(prof.motivations) : \E k \in 1..Len(event.motivations) :
        normalized(prof.motivations[i]) = normalized(event.motivations[k])

formatMatched(event, prof) ==
    /\ prof.sessionFormatPreference # ""
    /\ event.sessionFormat # ""
    /\ normalized(prof.sessionFormatPreference) = normalized(event.sessionFormat)

dayMatched(event, prof) ==
    /\ newDate(event.date).valid
    /\ \E k \in 1..Len(prof.preferredDays) :
          toLowerCase(prof.preferredDays[k])
              = toLowerCase(getDayOfWeek(event.date))

timeMatched(event, prof) ==
    \E k \in 1..Len(prof.preferredTimes) :
        includes(toLowerCase(event.time), toLowerCase(prof.preferredTimes[k]))

Points(matched, n) == IF matched THEN n ELSE 0

\* The points of the matched factors other than sport
otherPoints(event, prof) ==
    (IF exactBorough(event, prof) THEN 35
     ELSE IF sameRegion(event, prof) THEN 25 ELSE 0)
    + Points(checkGenderCompatibility(event.genderTarget,
                                      prof.gender).bonusPoints > 0, 30)
    + Points(motivationMatched(event, prof), 25)
    + Points(matchesSkillLevel(event.eventName, prof.fitnessLevel).matches, 25)
    + Points(formatMatched(event, prof), 20)
    + Points(dayMatched(event, prof), 20)
    + Points(timeMatched(event, prof), 15)
    + Points(event.price <= 1000, 10)

\* C6: the score of every candidate is the sum of its matched factors'
\* points (sport 80; exact borough 35, or else regional 25; gender bonus 30;
\* motivation 25; skill 25; format 20; day 20; time 15; price <= 10 gives
\* 10), reduced once to floor(0.4 * sum) when the user has a preferred sport
\* and none matched; sport + exact borough + price 8 gives 125, shown as 81.
C6_ScoreIsSumOfFactors ==
    Responded =>
        \A i \in 1..Len(scoredEvents) :
            LET rec   == scoredEvents[i]
                event == eventOf(rec)
                sport == sportMatch(event, profile)
                sum   == Points(sport, 80) + otherPoints(event, profile)
            IN  /\ rec.score = IF Len(profile.preferredSports) > 0 /\ ~sport
                               THEN (4 * sum) \div 10
                               ELSE sum
                /\ (/\ sport /\ exactBorough(event, profile)
                    /\ event.price = 800
                    /\ otherPoints(event, profile) = 45)
                       => rec.score = 125 /\ rec.displayPercentage = 81

\* C6, witness: the scenario's user and event, and beside it a candidate that
\* took the penalty on a regional match
C6_Witness ==
    /\ Responded
    /\ profile = userScenario
    /\ \E i \in 1..Len(scoredEvents) :
          /\ scoredEvents[i].eventID = evScenario.eventID
          /\ scoredEvents[i].score = 125
    /\ \E i \in 1..Len(scoredEvents) :
          /\ ~scoredEvents[i].hasSportMatch
          /\ scoredEvents[i].score > 0

\* Two events that differ in identifier and category only
identicalButSport(e1, e2) ==
    [e1 EXCEPT !.eventID = "", !.category = ""]
        = [e2 EXCEPT !.eventID = "", !.category = ""]

\* The category of the event equals a preferred sport of the user
exactCategoryMatch(event, prof) ==
    \E k \in 1..Len(prof.preferredSports) :
        normalized(prof.preferredSports[k]) = normalized(event.category)

\* Scored candidates a, b: a's category equals a preferred sport, b matches
\* no preferred sport, and they are identical otherwise
sportTwins(a, b) ==
    /\ identicalButSport(eventOf(a), eventOf(b))
    /\ exactCategoryMatch(eventOf(a), profile)
    /\ ~sportMatch(eventOf(b), profile)

\* C7, as claimed: of two candidates identical except that one has an exact
\* sport-category match and the other no sport match, the matching one
\* scores exactly 80 more.
C7_AsClaimed ==
    Responded =>
        \A i, j \in 1..Len(scoredEvents) :
            sportTwins(scoredEvents[i], scoredEvents[j])
                => scoredEvents[i].score = scoredEvents[j].score + 80

\* C7, amended: the matching one scores exactly 80 more than the other's
\* sum of factors before the no-sport-match penalty; the other's score is
\* floor(0.4 * that sum).
C7_SportAdds80 ==
    Responded =>
        \A i, j \in 1..Len(scoredEvents) :
            sportTwins(scoredEvents[i], scoredEvents[j])
                => /\ scoredEvents[i].score
                          = otherPoints(eventOf(scoredEvents[j]), profile) + 80
                   /\ scoredEvents[j].score
                          = (4 * otherPoints(eventOf(scoredEvents[j]), profile))
                                \div 10

\* C7, witness: such a pair was scored, and the other's factors are not zero
C7_Witness ==
    /\ Responded
    /\ \E i, j \in 1..Len(scoredEvents) :
          /\ sportTwins(scoredEvents[i], scoredEvents[j])
          /\ scoredEvents[j].score > 0

\* The text of an event holds an excluded compound of "football"
hasFootballCompound(event) ==
    LET text == normalized(event.category) \o " " \o normalized(event.eventName)
    IN  \/ includes(text, "american football")
        \/ includes(text, "flag football")
        \/ includes(text, "australian rules football")
        \/ includes(text, "afl")
        \/ includes(text, "gridiron")

onlyFootball(prof) ==
    /\ Len(prof.preferredSports) = 1
    /\ prof.preferredSports[1] = "Football"

\* C8: for a user whose only preferred sport is "Football", a candidate whose
\* category is not exactly "football" and whose category+name text holds an
\* excluded compound gets no sport bonus: its score is the penalised sum of
\* its other factors and no "Football session" reason is given.
C8_FootballCompoundExcluded ==
    (Responded /\ onlyFootball(profile)) =>
        \A i \in 1..Len(scoredEvents) :
            LET rec   == scoredEvents[i]
                event == eventOf(rec)
            IN  (/\ normalized(event.category) # "football"
                 /\ hasFootballCompound(event))
                    => /\ ~rec.hasSportMatch
                       /\ rec.score = (4 * otherPoints(event, profile)) \div 10
                       /\ \A k \in 1..Len(rec.reasons) :
                              rec.reasons[k] # "Football session"

\* C8, witness: "American Football Social" was scored for such a user, and
\* so was "Flag Football Night" of category "Football", which did match
C8_Witness ==
    /\ Responded
    /\ onlyFootball(profile)
    /\ \E i \in 1..Len(scoredEvents) :
          /\ eventOf(scoredEvents[i]).category = "American Football"
          /\ eventOf(scoredEvents[i]).eventName = "American Football Social"
    /\ \E i \in 1..Len(scoredEvents) :
          /\ hasFootballCompound(eventOf(scoredEvents[i]))
          /\ scoredEvents[i].hasSportMatch

-----------------------------------------------------------------------------
(* Properties of calculateStats                                            *)

Counted == pc \in {"counted", "responded"}

\* The status text holds a cancellation or no-show keyword, in any case
hasExclusionKeyword(statusText) ==
    \/ includes(toLowerCase(statusText), "cancelled")
    \/ includes(toLowerCase(statusText), "cancel")
    \/ includes(toLowerCase(statusText), "no-show")
    \/ includes(toLowerCase(statusText), "noshow")

\* The event date of the booking is a date strictly before today
strictlyBeforeToday(b) ==
    /\ newDate(b.eventDate).valid
    /\ newDate(b.eventDate).time < statsNow.time

\* The event date of the booking is today or later
todayOrLater(b) ==
    /\ newDate(b.eventDate).valid
    /\ newDate(b.eventDate).time >= statsNow.time

isCounted(b) == \E k \in 1..Len(attended) : attended[k] = b

\* C9: a booking whose event date is strictly before today and whose status
\* holds none of cancelled, cancel, no-show, noshow ("Confirmed", or any
\* unrecognised text) is counted in totalAttended.
C9_DefaultAttended ==
    Counted =>
        /\ stats.totalAttended = Len(attended)
        /\ \A i \in 1..Len(bookings) :
               (/\ strictlyBeforeToday(bookings[i])
                /\ ~hasExclusionKeyword(bookings[i].status))
                   => isCounted(bookings[i])
        /\ stats.totalAttended
               >= Cardinality({i \in 1..Len(bookings) :
                                  /\ strictlyBeforeToday(bookings[i])
                                  /\ ~hasExclusionKeyword(bookings[i].status)})

\* C9, witness: a past booking of status "Pending" and a past booking of
\* status "Confirmed" were both counted
C9_Witness ==
    /\ Counted
    /\ stats.totalAttended >= 2
    /\ \E i, j \in 1..Len(bookings) :
          /\ bookings[i].status = "Pending"
          /\ bookings[j].status = "Confirmed"
          /\ strictlyBeforeToday(bookings[i])
          /\ strictlyBeforeToday(bookings[j])
          /\ isCounted(bookings[i])
          /\ isCounted(bookings[j])

\* C10, as claimed: no booking counted in totalAttended has a status that
\* holds a cancellation or no-show keyword, and none has an event date of
\* today or later.
C10_NeverCountsExcluded ==
    Counted =>
        /\ stats.totalAttended = Len(attended)
        /\ \A k \in 1..Len(attended) :
               /\ ~hasExclusionKeyword(attended[k].status)
               /\ ~todayOrLater(attended[k])

-----------------------------------------------------------------------------
(* Properties of the whole computation                                     *)

inputsOf(rq) ==
    <<rq.profile, rq.events, rq.bookings, rq.page, rq.pageSize>>

\* The current time as each component read it
timesOf(rq) == <<rq.sepNow, rq.statsNow, rq.recNow>>

outputsOf(rq) ==
    <<rq.upcoming, rq.past, rq.pastTotal, rq.stats, rq.recommendations>>

-----------------------------------------------------------------------------
(* Properties of the list of recommendations                               *)

\* The date text is a date on or after today, its time of day set aside
onOrAfterToday(dateText) ==
    /\ newDate(dateText).valid
    /\ (newDate(dateText).time \div HoursPerDay) * HoursPerDay >= recNow.time

hasChildKeyword(event) ==
    \E k \in 1..Len(childKeywords) :
        includes(toLowerCase(event.eventName \o " " \o event.category),
                 childKeywords[k])

\* C12: every recommended event has a date on or after today (today
\* included, an unparseable date excluded), has active text "true" or "yes"
\* in any case, has an identifier that no booking of the user carries,
\* whatever the booking's status, and has no children/youth keyword in its
\* name and category.
C12_Eligible ==
    Responded =>
        \A i \in 1..Len(recommendations) :
            LET event == eventOf(recommendations[i])
            IN  /\ onOrAfterToday(event.date)
                /\ toLowerCase(event.active) \in {"true", "yes"}
                /\ \A k \in 1..Len(bookings) :
                       bookings[k].eventID # event.eventID
                /\ ~hasChildKeyword(event)

\* C12, witness: the catalog holds events of yesterday, of today, without a
\* date, inactive and for children, one event has a cancelled booking, and
\* the event of today is recommended
C12_Witness ==
    /\ Responded
    /\ \E i \in 1..Len(events) : events[i] = evPast
    /\ \E i \in 1..Len(events) : events[i] = evNoDate
    /\ \E i \in 1..Len(events) : events[i] = evInactive
    /\ \E i \in 1..Len(events) : events[i] = evKids
    /\ \E k \in 1..Len(bookings) :
          /\ bookings[k].status = "Cancelled"
          /\ \E i \in 1..Len(events) : events[i].eventID = bookings[k].eventID
    /\ \E i \in 1..Len(recommendations) :
          /\ recommendations[i].eventID = evToday.eventID
          /\ newDate(recommendations[i].date).time >= recNow.time

\* The position in the catalog of the event a card was made from
catalogIndex(rec) ==
    CHOOSE i \in 1..Len(events) : events[i].eventID = rec.eventID

\* C13: the returned list is ordered by score descending, and two returned
\* cards of equal score stand in the order of their events in the catalog.
C13_SortedStable ==
    Responded =>
        \A i, j \in 1..Len(recommendations) :
            i < j =>
                /\ recommendations[i].score >= recommendations[j].score
                /\ recommendations[i].score = recommendations[j].score
                       => catalogIndex(recommendations[i])
                              < catalogIndex(recommendations[j])

\* C13, witness: a returned list with a tie and with a strict descent, from
\* the catalog in its reversed order
C13_Witness ==
    /\ Responded
    /\ events = reverse(RecEventPool)
    /\ \E i, j \in 1..Len(recommendations) :
          /\ i < j
          /\ recommendations[i].score = recommendations[j].score
    /\ \E i, j \in 1..Len(recommendations) :
          /\ i < j
          /\ recommendations[i].score > recommendations[j].score

\* The template key of a card: the trimmed session-template identifier of
\* its event, or the event identifier when that is empty
templateKey(rec) ==
    IF trim(eventOf(rec).sessionTemplateID) # ""
    THEN trim(eventOf(rec).sessionTemplateID)
    ELSE eventOf(rec).eventID

\* C14: no two returned cards share a template key, and each returned card
\* is the first of the sorted candidates with score >= 60 that have its key,
\* so none of them scores higher.
C14_OnePerTemplate ==
    Responded =>
        /\ \A i, j \in 1..Len(recommendations) :
               i # j => templateKey(recommendations[i])
                            # templateKey(recommendations[j])
        /\ \A i \in 1..Len(recommendations) :
               \E k \in 1..Len(scoredEvents) :
                   /\ scoredEvents[k] = recommendations[i]
                   /\ \A m \in 1..Len(scoredEvents) :
                          (/\ scoredEvents[m].score >= 60
                           /\ templateKey(scoredEvents[m])
                                  = templateKey(recommendations[i]))
                              => /\ k <= m
                                 /\ scoredEvents[m].score
                                        <= recommendations[i].score

\* C14, witness: two candidates of one template passed the threshold with
\* different scores, the higher one was returned, and so was a card keyed by
\* its event identifier
C14_Witness ==
    /\ Responded
    /\ \E k, m \in 1..Len(scoredEvents) :
          /\ k < m
          /\ scoredEvents[m].score >= 60
          /\ scoredEvents[k].score > scoredEvents[m].score
          /\ templateKey(scoredEvents[k]) = templateKey(scoredEvents[m])
          /\ \E i \in 1..Len(recommendations) :
                recommendations[i] = scoredEvents[k]
    /\ \E i \in 1..Len(recommendations) :
          templateKey(recommendations[i]) = recommendations[i].eventID

\* The template keys of the eligible candidates with score >= 60
qualifyingKeys ==
    {templateKey(scoredEvents[k]) :
         k \in {m \in 1..Len(scoredEvents) : scoredEvents[m].score >= 60}}

\* C15: at most 5 cards are returned, and exactly min(5, number of distinct
\* template keys among the eligible candidates with score >= 60).
C15_CappedCount ==
    Responded =>
        /\ Len(recommendations) <= 5
        /\ Len(recommendations) = Min(5, Cardinality(qualifyingKeys))

\* C15, witness: more than five template keys qualified and five cards were
\* returned
C15_Witness ==
    /\ Responded
    /\ Cardinality(qualifyingKeys) > 5
    /\ Len(recommendations) = 5

-----------------------------------------------------------------------------
(* Properties of the handling of dates                                     *)

unparseable(dateText) == ~newDate(dateText).valid

hasUnparseableDate ==
    \/ \E i \in 1..Len(bookings) : unparseable(bookings[i].eventDate)
    \/ \E i \in 1..Len(events) : unparseable(events[i].date)

\* C16, as claimed: a booking or event whose date text is empty or
\* unparseable never makes separateSessions, calculateStats or
\* generateRecommendations raise: the computation does not end in the
\* handler's catch.
C16_NeverRaises == hasUnparseableDate => pc # "failed"

-----------------------------------------------------------------------------
(* Properties of concurrent invocations                                    *)

\* The cards separateSessions makes from the invocation's own bookings and
\* events on the day it read
ownEntries(rq, day) == separateLoop(rq.bookings, rq.events, day.time, {})

\* The response of the invocation is the one its own inputs give, on the
\* days its components read
respondsAsAlone(rq) ==
    /\ rq.upcoming \in sortOutcomes(
           cardsOf(SelectSeq(ownEntries(rq, rq.sepNow), isUpcomingEntry)),
           FALSE)
    /\ \E pa \in sortOutcomes(
           cardsOf(SelectSeq(ownEntries(rq, rq.sepNow), isPastEntry)), TRUE) :
           /\ rq.past = paginate(pa, rq.page, rq.pageSize)
           /\ rq.pastTotal = Len(pa)
    /\ rq.stats = calculateStats(rq.bookings, rq.events, rq.statsNow.time)
    /\ rq.recommendations =
           uniqueRecommendationsOf(
               scoredEventsOf(rq.events, rq.profile, rq.bookings, rq.recNow),
               rq.events)

\* C17: of two invocations served concurrently, each answers as it would
\* alone: its response is determined by its own profile, events, bookings,
\* page and pageSize, whatever the other invocation is given and however
\* the two are interleaved.
C17_Isolated ==
    \A r \in DOMAIN reqs :
        /\ reqs[r].pc = "responded" => respondsAsAlone(reqs[r])
        /\ reqs[r].pc = "notfound" => ~reqs[r].profile.found
        /\ reqs[r].pc = "failed"
               => /\ reqs[r].profile.found
                  /\ \E d \in {todayAt(c) : c \in StartClock..clock} :
                         separateThrows(ownEntries(reqs[r], d))

\* C17, witness: two invocations for different users have both responded
\* with different responses, the second a day before the first
C17_Witness ==
    /\ DOMAIN reqs = Requests
    /\ reqs[1].pc = "responded"
    /\ reqs[2].pc = "responded"
    /\ reqs[1].profile # reqs[2].profile
    /\ reqs[1].bookings # reqs[2].bookings
    /\ reqs[1].sepNow.time > reqs[2].recNow.time
    /\ outputsOf(reqs[1]) # outputsOf(reqs[2])

-----------------------------------------------------------------------------
(* Properties of the current time                                          *)

\* C18, as claimed: within one computation the past/upcoming split, the
\* attended filter, the badges and the eligibility of events are decided
\* against one and the same current time, so no booking is both on an
\* upcoming card and counted as attended because midnight passed.
C18_OneCurrentTime ==
    Responded =>
        /\ sepNow = statsNow
        /\ statsNow = recNow
        /\ \A i \in 1..Len(upcoming) : \A k \in 1..Len(attended) :
               upcoming[i].bookingID # attended[k].bookingID

\* A computation that midnight passed: a booking of the 10th is on an
\* upcoming card with the badge "Today" and is counted as attended
C18_MidnightPassed ==
    /\ Responded
    /\ sepNow.time < statsNow.time
    /\ \E i \in 1..Len(upcoming) : \E k \in 1..Len(attended) :
          /\ upcoming[i].bookingID = attended[k].bookingID
          /\ upcoming[i].badge = "Today"
          /\ attended[k].eventDate = "2025-06-10"
    /\ stats.totalAttended >= 1

-----------------------------------------------------------------------------
(* Properties of checkGenderCompatibility                                  *)

\* The result for an event of the catalog and the user
genderCheckOf(event) ==
    checkGenderCompatibility(event.genderTarget, profile.gender)

\* The pairs that are given the bonus according to the claim
bonusAsClaimed(target, gender) ==
    \/ gender = "female" /\ includes(target, "women only")
    \/ gender = "male" /\ isMenTargetText(target)

\* The same, a "women only" target not being a men's target
bonusPair(target, gender) ==
    \/ gender = "female" /\ includes(target, "women only")
    \/ /\ gender = "male"
       /\ isMenTargetText(target)
       /\ ~includes(target, "women only")

\* The pairs that are excluded
hardIncompatible(target, gender) ==
    \/ gender = "male" /\ includes(target, "women only")
    \/ /\ gender = "female"
       /\ isMenTargetText(target)
       /\ ~includes(target, "women only")

hasGenderReason(rec) ==
    \E k \in 1..Len(rec.reasons) :
        rec.reasons[k] \in {"women's session", "men's session"}

\* C19, as claimed: compatible with 0 bonus when the target or the gender
\* is empty after trimming; bonus 30 exactly when the user is "female" and
\* the target contains "women only", or the user is "male" and the target
\* is "men", "men only" or contains "men only"; otherwise 0 bonus.
C19_AsClaimed ==
    Responded =>
        \A i \in 1..Len(events) :
            LET target == normalized(events[i].genderTarget)
                gender == normalized(profile.gender)
                check  == genderCheckOf(events[i])
            IN  /\ (target = "" \/ gender = "")
                       => check.isCompatible /\ check.bonusPoints = 0
                /\ check.bonusPoints = 30 <=> bonusAsClaimed(target, gender)
                /\ check.bonusPoints \in {0, 30}

\* C19, amended: as claimed, except that a "male" user gets the bonus only
\* when the target does not contain "women only" (the text "women only"
\* contains "men only", and for him such a target is incompatible); every
\* pair that is not excluded is compatible, and a scored event carries a
\* gender reason exactly when it has the bonus.
C19_GenderBonus ==
    Responded =>
        /\ \A i \in 1..Len(events) :
               LET target == normalized(events[i].genderTarget)
                   gender == normalized(profile.gender)
                   check  == genderCheckOf(events[i])
               IN  /\ (target = "" \/ gender = "")
                          => check.isCompatible /\ check.bonusPoints = 0
                   /\ check.bonusPoints = 30 <=> bonusPair(target, gender)
                   /\ check.bonusPoints \in {0, 30}
                   /\ check.isCompatible <=> ~hardIncompatible(target, gender)
                   /\ check.bonusPoints = 30 => check.isCompatible
        /\ \A k \in 1..Len(scoredEvents) :
               hasGenderReason(scoredEvents[k])
                   <=> bonusPair(targetOf(scoredEvents[k]),
                                 normalized(profile.gender))

\* C19, witness: a male user whose catalog holds a "women only" event, a
\* men's event, an open event and an event without target; one scored
\* event has the bonus and one has not
C19_Witness ==
    /\ Responded
    /\ normalized(profile.gender) = "male"
    /\ profile.gender # "male"
    /\ \E i \in 1..Len(events) :
          includes(normalized(events[i].genderTarget), "women only")
    /\ \E i \in 1..Len(events) : events[i].genderTarget = "Men"
    /\ \E i \in 1..Len(events) : events[i].genderTarget = "Mixed"
    /\ \E i \in 1..Len(events) : normalized(events[i].genderTarget) = ""
    /\ \E k \in 1..Len(scoredEvents) : hasGenderReason(scoredEvents[k])
    /\ \E k \in 1..Len(scoredEvents) : ~hasGenderReason(scoredEvents[k])

-----------------------------------------------------------------------------
(* Properties of matchesSkillLevel                                         *)

skillCheckOf(event) == matchesSkillLevel(event.eventName, profile.fitnessLevel)

\* The name of the event holds "all levels" or "mixed ability"
openToAllLevels(event) ==
    \/ includes(toLowerCase(event.eventName), "all levels")
    \/ includes(toLowerCase(event.eventName), "mixed ability")

\* A keyword among beginner, intermediate, advanced is in the name of the
\* event and is contained in, or contains, the user's fitness-level text
namedLevelFits(event) ==
    \E word \in {"beginner", "intermediate", "advanced"} :
        /\ includes(toLowerCase(event.eventName), word)
        /\ \/ includes(toLowerCase(profile.fitnessLevel), word)
           \/ includes(word, toLowerCase(profile.fitnessLevel))

hasLevelReason(rec) ==
    \E k \in 1..Len(rec.reasons) :
        \E n \in 1..Len(skillLevels) :
            rec.reasons[k] = skillLevels[n] \o " level"

\* C20, as claimed: an event whose name holds "all levels" or "mixed
\* ability" has the skill match for every fitness-level text of the user;
\* an event that names only beginner, intermediate or advanced has it only
\* when that keyword is contained in, or contains, the user's text.
C20_AsClaimed ==
    Responded =>
        \A i \in 1..Len(events) :
            /\ openToAllLevels(events[i]) => skillCheckOf(events[i]).matches
            /\ (~openToAllLevels(events[i]) /\ skillCheckOf(events[i]).matches)
                   => namedLevelFits(events[i])

\* C20, amended: as claimed for every fitness-level text that is not empty;
\* for a user whose fitness-level text is empty no event has the skill
\* match.  A scored event has 25 points and a level reason exactly when it
\* has the match.
C20_SkillMatch ==
    Responded =>
        /\ \A i \in 1..Len(events) :
               /\ (openToAllLevels(events[i]) /\ profile.fitnessLevel # "")
                      => skillCheckOf(events[i]).matches
               /\ (~openToAllLevels(events[i]) /\ skillCheckOf(events[i]).matches)
                      => namedLevelFits(events[i])
               /\ profile.fitnessLevel = "" => ~skillCheckOf(events[i]).matches
        /\ \A k \in 1..Len(scoredEvents) :
               /\ hasLevelReason(scoredEvents[k])
                      <=> skillCheckOf(eventOf(scoredEvents[k])).matches
               /\ skillCheckOf(eventOf(scoredEvents[k])).matches
                      => scoredEvents[k].originalScore >= 25

\* C20, witness: a user with a fitness-level text that fits no named level
\* of the catalog; an "all levels" event was scored with the match and a
\* "beginner" event without it
C20_Witness ==
    /\ Responded
    /\ profile.fitnessLevel # ""
    /\ \E k \in 1..Len(scoredEvents) :
          /\ openToAllLevels(eventOf(scoredEvents[k]))
          /\ hasLevelReason(scoredEvents[k])
    /\ \E k \in 1..Len(scoredEvents) :
          /\ includes(toLowerCase(scoredEvents[k].title), "beginner")
          /\ ~hasLevelReason(scoredEvents[k])

-----------------------------------------------------------------------------
(* Properties of the statistics                                            *)

hasCancelKeyword(statusText) ==
    \/ includes(toLowerCase(statusText), "cancelled")
    \/ includes(toLowerCase(statusText), "cancel")

\* What the first n bookings contribute to totalSpent, in pence
RECURSIVE spentByFirst(_)
spentByFirst(n) ==
    IF n = 0 THEN 0
    ELSE spentByFirst(n - 1)
         + (IF hasCancelKeyword(bookings[n].status) THEN 0
            ELSE parsePrice(bookings[n].amountPaid))

\* C21: totalSpent is the sum of the parsed amount-paid of all bookings,
\* past and future, whose status holds no cancellation keyword (cancelled,
\* cancel); a booking whose status holds one contributes nothing.
C21_TotalSpent ==
    Counted => stats.totalSpent = spentByFirst(Len(bookings))

\* C21, witness: a cancelled booking with an amount, a future booking of
\* 8.00 and a past booking of 10 pounds: 18.00 was spent
C21_Witness ==
    /\ Counted
    /\ \E i, j, k \in 1..Len(bookings) :
          /\ hasCancelKeyword(bookings[i].status)
          /\ parsePrice(bookings[i].amountPaid) > 0
          /\ newDate(bookings[j].eventDate).time > statsNow.time
          /\ bookings[j].amountPaid = PoundSign \o "8.00"
          /\ newDate(bookings[k].eventDate).time < statsNow.time
          /\ bookings[k].amountPaid = "10"
    /\ stats.totalSpent = 1800

\* The minutes the first n attended bookings contribute: the duration of the
\* event with the booking's identifier, 90 when the catalog has none
RECURSIVE minutesByFirst(_)
minutesByFirst(n) ==
    IF n = 0 THEN 0
    ELSE minutesByFirst(n - 1)
         + (IF \E j \in 1..Len(events) :
                   events[j].eventID = attended[n].eventID
            THEN eventMapGet(events, attended[n].eventID).event.durationMinutes
            ELSE 90)

\* t tenths of an hour is m minutes divided by 60 and rounded to one decimal
\* place (a half rounds up)
isRoundedHours(t, m) == 60 * t <= 10 * m + 30 /\ 10 * m + 30 < 60 * (t + 1)

\* C22: totalHoursPlayed is, over the attended bookings only, the sum of the
\* resolved event's duration in minutes, 90 minutes standing for each attended
\* booking whose event identifier is not in the catalog, divided by 60 and
\* rounded to one decimal place; the other bookings contribute nothing.
C22_TotalHours ==
    Counted =>
        /\ \A k \in 1..Len(attended) : isAttended(attended[k], clock)
        /\ isRoundedHours(stats.totalHoursPlayed, minutesByFirst(Len(attended)))

\* C22, witness: an attended booking of a 75-minute event, an attended booking
\* whose event is not in the catalog and a future booking of a catalog event:
\* 165 minutes, 2.75 hours, rounded up to 2.8
C22_Witness ==
    /\ Counted
    /\ Len(attended) = 2
    /\ \E k \in 1..2 :
          /\ eventMapGet(events, attended[k].eventID).found
          /\ eventMapGet(events, attended[k].eventID).event.durationMinutes = 75
          /\ ~eventMapGet(events, attended[3 - k].eventID).found
    /\ \E i \in 1..Len(bookings) :
          /\ ~isCounted(bookings[i])
          /\ eventMapGet(events, bookings[i].eventID).found
    /\ stats.totalHoursPlayed = 28

\* The category counted for the k-th attended booking: that of the event with
\* its identifier, Undefined when the catalog has no such event or the event
\* has no category
categoryAt(k) ==
    IF \E j \in 1..Len(events) :
          /\ events[j].eventID = attended[k].eventID
          /\ events[j].category # ""
    THEN eventMapGet(events, attended[k].eventID).event.category
    ELSE Undefined

\* The weekday counted for the k-th attended booking
dayAt(k) == getDayOfWeek(attended[k].eventDate)

timesCounted(keyAt(_), v) ==
    Cardinality({k \in 1..Len(attended) : keyAt(k) = v})

firstCounted(keyAt(_), v) ==
    CHOOSE k \in 1..Len(attended) :
        keyAt(k) = v /\ \A j \in 1..(k - 1) : keyAt(j) # v

keysCounted(keyAt(_)) ==
    {keyAt(k) : k \in 1..Len(attended)} \ {Undefined}

\* v is the key with the highest count, the first encountered one among
\* those with the highest count; Undefined when no key is counted
isMostFrequent(keyAt(_), v) ==
    IF keysCounted(keyAt) = {} THEN v = Undefined
    ELSE /\ v \in keysCounted(keyAt)
         /\ \A w \in keysCounted(keyAt) :
               \/ timesCounted(keyAt, w) < timesCounted(keyAt, v)
               \/ /\ timesCounted(keyAt, w) = timesCounted(keyAt, v)
                  /\ firstCounted(keyAt, v) <= firstCounted(keyAt, w)

\* C23: mostPlayedSport is the category with the highest count among the
\* attended bookings whose event resolves and has a category, the first
\* encountered in booking order among those that tie, and null when no
\* attended booking has a categorized event; the same rule gives
\* mostCommonDay over the weekdays.
C23_MostFrequent ==
    Counted =>
        /\ isMostFrequent(categoryAt, stats.mostPlayedSport)
        /\ isMostFrequent(dayAt, stats.mostCommonDay)

\* C23, witness: the category returned has the highest count and is not the
\* first one encountered, and the weekdays tie, of which the first
\* encountered is returned
C23_Witness ==
    /\ Counted
    /\ stats.mostPlayedSport \in keysCounted(categoryAt)
    /\ timesCounted(categoryAt, stats.mostPlayedSport) = 2
    /\ \E w \in keysCounted(categoryAt) :
          firstCounted(categoryAt, w)
              < firstCounted(categoryAt, stats.mostPlayedSport)
    /\ stats.mostCommonDay \in keysCounted(dayAt)
    /\ \E d \in keysCounted(dayAt) :
          /\ d # stats.mostCommonDay
          /\ timesCounted(dayAt, d) = timesCounted(dayAt, stats.mostCommonDay)
          /\ firstCounted(dayAt, stats.mostCommonDay) < firstCounted(dayAt, d)

-----------------------------------------------------------------------------
(* Properties of the session cards                                         *)

allCards == upcoming \o pastAll

inCatalog(id) == \E j \in 1..Len(events) : events[j].eventID = id

catalogEvent(id) ==
    events[CHOOSE j \in 1..Len(events) : events[j].eventID = id]

\* C24: when the booking's event identifier resolves to an Event of the
\* catalog, the card's date, time, venue and price are that Event's values;
\* the booking's own snapshot fields are used only when the catalog has no
\* such Event.
C24_EventValuesWhenResolved ==
    Separated =>
        \A i \in 1..Len(allCards) :
            LET card    == allCards[i]
                booking == firstWithID(card.bookingID)
            IN  IF inCatalog(booking.eventID)
                THEN /\ card.date = catalogEvent(booking.eventID).date
                     /\ card.time = catalogEvent(booking.eventID).time
                     /\ card.venue = catalogEvent(booking.eventID).location
                     /\ card.price = catalogEvent(booking.eventID).price
                ELSE /\ card.date = booking.eventDate
                     /\ card.time = booking.eventTime
                     /\ card.venue = booking.eventLocation
                     /\ card.price = parsePrice(booking.amountPaid)

\* C24, the case that fails: the Event of the booking is in the catalog with
\* price 0, the booking records an amount, and the card shows that amount
C24_FreeEventCard ==
    /\ Separated
    /\ \E i \in 1..Len(allCards) :
          /\ inCatalog(allCards[i].eventID)
          /\ catalogEvent(allCards[i].eventID).price = 0
          /\ allCards[i].price > 0
          /\ allCards[i].price
                 = parsePrice(firstWithID(allCards[i].bookingID).amountPaid)

hourOf(card) == newDate(card.date).time

ascending(cards) ==
    \A i, j \in 1..Len(cards) : i < j => hourOf(cards[i]) <= hourOf(cards[j])

descending(cards) ==
    \A i, j \in 1..Len(cards) : i < j => hourOf(cards[i]) >= hourOf(cards[j])

\* C25: the upcoming list is ordered by card date ascending and the past
\* list, before and after pagination, by card date descending; every
\* upcoming card has a date on or after today and no attendance label, and
\* every past card has a date strictly before today, carries the booking's
\* status as attendance label and has no badge.
C25_OrderedAndLabelled ==
    Separated =>
        /\ ascending(upcoming)
        /\ descending(pastAll)
        /\ descending(past)
        /\ \A i \in 1..Len(upcoming) :
              /\ newDate(upcoming[i].date).valid
              /\ hourOf(upcoming[i]) >= sepNow.time
              /\ upcoming[i].attendanceStatus = Undefined
        /\ \A i \in 1..Len(pastAll) :
              /\ newDate(pastAll[i].date).valid
              /\ hourOf(pastAll[i]) < sepNow.time
              /\ pastAll[i].attendanceStatus
                     = firstWithID(pastAll[i].bookingID).status
              /\ pastAll[i].badge = Undefined
        /\ \A i \in 1..Len(past) :
              \E k \in 1..Len(pastAll) : past[i] = pastAll[k]

\* The position of the first booking with the card's identifier
inputIndex(card) ==
    CHOOSE i \in 1..Len(bookings) :
        /\ bookings[i].bookingID = card.bookingID
        /\ \A j \in 1..(i - 1) : bookings[j].bookingID # card.bookingID

\* C25, witness: two upcoming cards and two past cards with different dates,
\* both pairs given in the other order; the first upcoming card is later
\* today and the page holds both past cards
C25_Witness ==
    /\ Separated
    /\ Len(upcoming) = 2 /\ Len(pastAll) = 2 /\ Len(past) = 2
    /\ hourOf(upcoming[1]) < hourOf(upcoming[2])
    /\ inputIndex(upcoming[1]) > inputIndex(upcoming[2])
    /\ hourOf(upcoming[1]) > sepNow.time
    /\ upcoming[1].badge = "Today"
    /\ hourOf(pastAll[1]) > hourOf(pastAll[2])
    /\ inputIndex(pastAll[1]) > inputIndex(pastAll[2])
    /\ pastAll[1].attendanceStatus # pastAll[2].attendanceStatus

-----------------------------------------------------------------------------
(* Degenerate inputs                                                       *)

noInputs == bookings = <<>> /\ events = <<>>

emptyResults ==
    /\ upcoming = <<>> /\ pastAll = <<>> /\ past = <<>> /\ pastTotal = 0
    /\ recommendations = <<>>
    /\ stats.totalBooked = 0 /\ stats.totalAttended = 0
    /\ stats.totalHoursPlayed = 0 /\ stats.totalSpent = 0
    /\ stats.mostPlayedSport = Undefined /\ stats.mostCommonDay = Undefined

\* C26, as claimed: with no bookings and no events the lists are empty,
\* pastTotal and the numeric stats are 0 and mostPlayedSport and
\* mostCommonDay are null; and with an absent profile the components likewise
\* return an empty result and the computation does not fail.
C26_AsClaimed ==
    /\ (Responded /\ noInputs) => emptyResults
    /\ (profile.found /\ noInputs) => pc # "failed"
    /\ ~profile.found => pc \notin {"notfound", "failed"}

\* C26: with no bookings and no events the computation does not fail and
\* returns empty upcoming, past and recommendation lists, pastTotal 0, all
\* numeric stats 0 and null mostPlayedSport and mostCommonDay; with an absent
\* profile no component runs and the handler answers that the user was not
\* found.
C26_DegenerateInputs ==
    /\ (Responded /\ noInputs) => emptyResults
    /\ (Separated /\ noInputs) =>
           upcoming = <<>> /\ pastAll = <<>> /\ past = <<>> /\ pastTotal = 0
    /\ (Counted /\ noInputs) =>
           /\ stats.totalBooked = 0 /\ stats.totalAttended = 0
           /\ stats.totalHoursPlayed = 0 /\ stats.totalSpent = 0
           /\ stats.mostPlayedSport = Undefined
           /\ stats.mostCommonDay = Undefined
    /\ (profile.found /\ noInputs) => pc # "failed"
    /\ ~profile.found => pc \in {"fetched", "notfound"} /\ NoOutputs

\* C26, witness: a found profile without bookings and events has been
\* answered, the three components having run
C26_Witness ==
    /\ Responded /\ noInputs /\ profile.found
    /\ sepNow.valid /\ statsNow.valid /\ recNow.valid

-----------------------------------------------------------------------------
(* The statistics and the session lists together                           *)

distinctBookingIDs ==
    \A i, j \in 1..Len(bookings) :
        bookings[i].bookingID = bookings[j].bookingID => i = j

sameDay == sepNow.valid /\ statsNow = sepNow

\* C27: every booking that calculateStats counts as attended is shown by
\* separateSessions, for the same inputs and the same day, on a card of the
\* past list before pagination and never on a card of the upcoming list; so
\* with distinct booking identifiers totalAttended <= pastSessionsTotal.
C27_AttendedIsPast ==
    (Counted /\ sameDay) =>
        /\ \A k \in 1..Len(attended) :
              /\ cardCount(pastAll, attended[k].bookingID) = 1
              /\ cardCount(upcoming, attended[k].bookingID) = 0
        /\ distinctBookingIDs => stats.totalAttended <= pastTotal

\* C27, the case that fails: the identifiers are distinct, both components
\* ran on the same day, and a booking counted as attended is on an upcoming
\* card, the catalog's event being dated later than the booking says
C27_AttendedShownUpcoming ==
    /\ Counted /\ sameDay /\ distinctBookingIDs
    /\ \E k \in 1..Len(attended) :
          /\ cardCount(upcoming, attended[k].bookingID) = 1
          /\ inCatalog(attended[k].eventID)
          /\ newDate(attended[k].eventDate).time < statsNow.time
          /\ newDate(catalogEvent(attended[k].eventID).date).time
                 >= sepNow.time
    /\ stats.totalAttended > pastTotal

\* The positions of the bookings with the identifier id
occurrences(id) == {i \in 1..Len(bookings) : bookings[i].bookingID = id}

\* The booking at position i passes the attended filter on the day of the
\* statistics
attendedAt(i) ==
    /\ ~dateGe(newDate(bookings[i].eventDate), statsNow)
    /\ statusCountsAsAttended(bookings[i].status)

\* C28: calculateStats does not deduplicate by booking identifier: every
\* occurrence of an identifier adds one to totalBooked, its amount to
\* totalSpent and, if attended, one to totalAttended, while separateSessions
\* shows the identifier on one card only; when all booking identifiers are
\* distinct, totalBooked = number of upcoming cards + pastSessionsTotal.
C28_StatsKeepDuplicates ==
    Counted =>
        /\ stats.totalBooked = Len(bookings)
        /\ stats.totalSpent = spentByFirst(Len(bookings))
        /\ stats.totalAttended
               = Cardinality({i \in 1..Len(bookings) : attendedAt(i)})
        /\ \A id \in bookingIDsOf(bookings) :
               cardCount(upcoming, id) + cardCount(pastAll, id) = 1
        /\ distinctBookingIDs =>
               stats.totalBooked = Len(upcoming) + pastTotal

\* C28, witness: an identifier occurs twice, both occurrences are attended
\* and paid for, and the identifier is on one past card
C28_Witness ==
    /\ Counted
    /\ \E i, j \in 1..Len(bookings) :
          /\ i < j
          /\ occurrences(bookings[i].bookingID) = {i, j}
          /\ attendedAt(i) /\ attendedAt(j)
          /\ parsePrice(bookings[i].amountPaid) > 0
          /\ parsePrice(bookings[j].amountPaid) > 0
          /\ stats.totalSpent >= parsePrice(bookings[i].amountPaid)
                                   + parsePrice(bookings[j].amountPaid)
          /\ cardCount(pastAll, bookings[i].bookingID) = 1
    /\ stats.totalAttended >= 2
    /\ stats.totalBooked = Len(upcoming) + pastTotal + 1

-----------------------------------------------------------------------------
(* Properties of the returned scores and reasons                           *)

\* C29: for a user with at least one preferred sport, an event that matches
\* none of them is returned only if the sum of its other factors is at least
\* 150, and its returned score is then between 60 and 72; for a user with no
\* preferred sports no penalty is applied and every returned score is
\* between 60 and 180.
C29_PenalisedBand ==
    Responded =>
        \A i \in 1..Len(recommendations) :
            LET rec   == recommendations[i]
                event == eventOf(rec)
            IN  /\ (/\ Len(profile.preferredSports) > 0
                    /\ ~sportMatch(event, profile))
                       => /\ otherPoints(event, profile) >= 150
                          /\ rec.score >= 60 /\ rec.score <= 72
                /\ Len(profile.preferredSports) = 0
                       => /\ rec.score = otherPoints(event, profile)
                          /\ rec.score >= 60 /\ rec.score <= 180

\* C29, witness: a user with preferred sports is returned an event matching
\* none of them, while another such event, its other factors summing to less
\* than 150, was scored below 60 and is not returned
C29_Witness ==
    /\ Responded
    /\ Len(profile.preferredSports) > 0
    /\ \E i \in 1..Len(recommendations) :
          /\ ~sportMatch(eventOf(recommendations[i]), profile)
          /\ recommendations[i].score \in 60..72
    /\ \E k \in 1..Len(scoredEvents) :
          /\ ~sportMatch(eventOf(scoredEvents[k]), profile)
          /\ otherPoints(eventOf(scoredEvents[k]), profile) \in 1..149
          /\ scoredEvents[k].score < 60
          /\ \A i \in 1..Len(recommendations) :
                recommendations[i].eventID # scoredEvents[k].eventID

DefaultReason == "New session in your area"

\* The reason holds the fragment, as it is or at the start with its first
\* letter in upper case
holdsFragment(reason, fragment) ==
    \/ includes(reason, fragment)
    \/ SubSeq(reason, 1, Len(fragment))
           = UpperChar(CharAt(fragment, 1)) \o SubSeq(fragment, 2, Len(fragment))

\* C30: no returned card carries the default reason "New session in your
\* area": the reason of every returned card holds the phrase of at least one
\* matched factor, because a candidate without a reason fragment scores at
\* most 10 (a price above 5 and at most 10 adds points but no fragment) and
\* the threshold of 60 removes it.
C30_NeverDefaultReason ==
    Responded =>
        /\ \A i \in 1..Len(recommendations) :
              /\ recommendations[i].reason # DefaultReason
              /\ recommendations[i].reasons # <<>>
              /\ \E k \in 1..Len(recommendations[i].reasons) :
                    /\ recommendations[i].reasons[k] # ""
                    /\ holdsFragment(recommendations[i].reason,
                                     recommendations[i].reasons[k])
        /\ \A i \in 1..Len(scoredEvents) :
              scoredEvents[i].reasons = <<>>
                  => /\ scoredEvents[i].score <= 10
                     /\ scoredEvents[i].reason = DefaultReason

\* C30, witness: a candidate priced above 5 and at most 10 got the 10 points
\* of the price bonus and the default reason and is not returned, while a
\* card is returned
C30_Witness ==
    /\ Responded
    /\ recommendations # <<>>
    /\ \E i \in 1..Len(scoredEvents) :
          /\ scoredEvents[i].reason = DefaultReason
          /\ scoredEvents[i].originalScore = 10
          /\ scoredEvents[i].score <= 10
          /\ eventOf(scoredEvents[i]).price > 500
          /\ \A k \in 1..Len(recommendations) :
                recommendations[k].eventID # scoredEvents[i].eventID

=============================================================================
